---- MODULE Spec2Model ----
(***************************************************************************)
(* Ledger engine of TripCode-blockchain-microservice: the Chain Manager    *)
(* (ChainService), the Consensus Engine (ConsensusService), the account    *)
(* directory (AccountService / User) and the Gas Meter (GasService).       *)
(*                                                                         *)
(* The specifications are given over the same variables:                   *)
(*   Spec            the Chain Manager operations, each run to completion; *)
(*   SpecSync        chain synchronisation and the operations that build   *)
(*                   the local chain, each run to completion;              *)
(*   SpecGas         the Gas Meter operations, each run to completion;     *)
(*   SpecGasFaults   the Gas Meter with storage writes that can fail;      *)
(*   SpecConcurrent  createBlock calls interleaved at their await;         *)
(*   SpecConsensus   the Consensus Engine called directly;                 *)
(*   SpecBoot        initialisation, synchronisation and restarts;         *)
(*   SpecPending     the pending-transaction pool (createProcess,          *)
(*                   minePendingProcesses);                                *)
(*   SpecCrypto      the envelope, signature and block-query operations;   *)
(*   SpecOverlap     one createBlock call overlapping synchronizeChain;    *)
(*   SpecSelect      the stake-weighted draw over credited directories;    *)
(*   SpecPrice       adjustBaseGasPrice over stored windows of blocks;     *)
(*   SpecMetering    executeTransaction calls interleaved at their awaits; *)
(*   SpecStoreFaults block creation and synchronization with failed saves; *)
(*   SpecReload      block creation followed by a restart from storage;    *)
(*   SpecTokens      the token registry: createToken and mintToken.        *)
(* Storage (Prisma) calls succeed in all but SpecGasFaults and             *)
(* SpecStoreFaults.                                                        *)
(***************************************************************************)
EXTENDS Integers, Sequences, FiniteSets, TLC

VARIABLES
    consensusAlgorithm, \* ConsensusService.consensusAlgorithm: "PoW" or "PoS"
    booted,             \* onModuleInit / initializeChain has completed
    chain,              \* ChainService.chain: sequence of Block records
    store,              \* prisma.block rows, in insertion order
    awaiting,           \* createBlock calls suspended at await saveBlockToPrisma
    pendingTransactions, \* ChainService.pendingTransactions
    users,              \* AccountService.users: accountHash -> in-memory User
    accounts,           \* prisma.account rows: accountHash -> row (with balances)
    gasUsage,           \* prisma.gasUsage rows, in insertion order
    baseGasPrice,       \* GasService.baseGasPrice
    opRuns,             \* how many times a metered operation() body has run
    adjustments,        \* how many times adjustBaseGasPrice has run
    metering,           \* executeTransaction calls suspended at an await
    tokens,             \* SmartContractsService.tokens, in creation order
    result              \* what the last call returned or threw

vars == <<consensusAlgorithm, booted, chain, store, awaiting, pendingTransactions,
          users, accounts,
          gasUsage, baseGasPrice, opRuns, adjustments, metering, tokens, result>>

chainVars == <<booted, chain, store, awaiting, pendingTransactions>>
gasVars == <<gasUsage, baseGasPrice, opRuns, adjustments, metering, tokens>>

(***************************************************************************)
(* Bounds of the model.                                                    *)
(***************************************************************************)
MaxChain == 3        \* longest chain (local or candidate), genesis included
MaxUsers == 1        \* identities that can be created
MaxCalls == 1        \* executeTransaction calls in a run
MaxAdjust == 1       \* adjustBaseGasPrice calls in a run
MaxStakeSteps == 1   \* credits of minStake an in-memory user can receive
MaxCredits == 1      \* credits of CreditAmount an account row can receive
MaxPending == 2      \* transactions that can wait in pendingTransactions
MaxTokens == 2       \* tokens createToken can register in a run

(***************************************************************************)
(* Program constants.                                                      *)
(***************************************************************************)
difficulty == 2      \* ConsensusService.difficulty
minStake == 1000     \* ConsensusService.minStake
HexBase == 16        \* hex digits of a hash
HashCycle == 4       \* period of the modelled hash in the nonce
DrawStep == 500      \* granularity of stakes and of the draw Math.random() * totalStake

\* amounts of tripcoin are counted in units of 0.000001 / PriceScale
PriceScale == 8 ^ MaxAdjust

\* 0.05 tripcoin, the amount a direct updateBalance credits
CreditAmount == 50000 * PriceScale

UserIds == 1..MaxUsers
\* the readings of new Date(): every call of a run reads the same instant
Times == {1}

(***************************************************************************)
(* Identities.  An account hash and a PEM public key are different strings *)
(* derived for the same user; a private key matches one public key.        *)
(***************************************************************************)
EmptyString == <<"", 0>>
SystemAddress == <<"system", 0>>
AccountHash(u) == <<"hash", u>>
PublicKeyPem(u) == <<"pem", u>>
AccountHashes == {AccountHash(u) : u \in UserIds}
PublicKeys == {PublicKeyPem(u) : u \in UserIds}
MalformedPem == <<"pem", 0>>
PemInputs == PublicKeys \cup {MalformedPem}

\* User.getBalance('tripcoin'): balances[currency] || 0
getBalance(user) == user.tripcoin

\* AccountService.users[key]: the in-memory user stored under that key
HasUser(key) == \E i \in 1..Len(users) : users[i].accountHash = key
UserAt(key) == users[CHOOSE i \in 1..Len(users) : users[i].accountHash = key]

(***************************************************************************)
(* Payloads.  A JavaScript value is a tagged number so that the typeof     *)
(* checks of isBlockData can be evaluated.                                 *)
(***************************************************************************)
JsString(v) == [type |-> "string", v |-> v]
JsNumber(v) == [type |-> "number", v |-> v]

\* a purchase from user 1 to user 2, and the same with a non-numeric amount
GoodBlockData == [from |-> JsString(1), to |-> JsString(2), amount |-> JsNumber(10)]
BadBlockData == [from |-> JsString(1), to |-> JsString(2), amount |-> JsString(10)]
BlockDatas == {GoodBlockData, BadBlockData}

isBlockData(obj) ==
    /\ obj.from.type = "string"
    /\ obj.to.type = "string"
    /\ obj.amount.type = "number"

\* JSON.stringify of a structure
JsonStringify(data) == <<"json", data>>

\* the calls return values: a result object, or an exception (thrown)
\* verdict is where the block of a block-creating call ended in the per-block
\* state machine: "Accepted", "Rejected" (validateBlock said no), "Unmined"
\* (mineBlock threw) or "none" (no block was built)
Returned(op, success, error) ==
    [op |-> op, success |-> success, thrown |-> FALSE, error |-> error,
     value |-> success, verdict |-> "none"]
Threw(op, error) ==
    [op |-> op, success |-> FALSE, thrown |-> TRUE, error |-> error,
     value |-> FALSE, verdict |-> "none"]

\* JSON.parse of a string JSON.stringify produced
JsonParse(text) == text[2]

\* typeof data === 'string'
IsJsString(data) == ("type" \in DOMAIN data) /\ data.type = "string"

\* CryptoUtils.encryptData: an envelope only the recipient's private scalar
\* opens; a string is encrypted as it is, anything else as its JSON text
encryptData(data, publicKey) ==
    [recipient |-> publicKey,
     plaintext |-> IF IsJsString(data) THEN data.v ELSE JsonStringify(data)]

\* key pairs: the public key object of pair k is its PEM; the private one
PrivateKey(k) == <<"priv", k>>
KeyPairs == {1, 2}
KeyObjects == {PublicKeyPem(k) : k \in KeyPairs} \cup {PrivateKey(k) : k \in KeyPairs}

\* the private scalar that, with the ephemeral key of an envelope made for
\* publicKey, gives the envelope's shared secret
PrivateScalar(publicKey) == <<"d", publicKey[2]>>

\* privateKey.export({format: 'pem', type: 'pkcs8'}) decoded from base64: the
\* PKCS#8 structure of an EC key ends with the public point (x, y)
Pkcs8Der(privateKey) ==
    <<"pkcs8", <<"d", privateKey[2]>>, <<"x", privateKey[2]>>, <<"y", privateKey[2]>>>>

\* Buffer.subarray(-32): the last 32 bytes
Last32(der) == der[Len(der)]

\* try { JSON.parse(text) } catch { text }
ParseOrString(text) ==
    IF text[1] = "json" THEN JsonParse(text) ELSE [type |-> "string", v |-> text]

\* variant: the envelope opens whatever key is supplied
decryptData_AnyKey(encryptedData, key) ==
    [thrown |-> FALSE, error |-> "", value |-> ParseOrString(encryptedData.plaintext)]

\* CryptoUtils.decryptData: the decrypted value, or the error it throws
decryptData(encryptedData, key) ==
    IF key[1] # "priv"
    THEN [thrown |-> TRUE, error |-> "Fallo al descifrar los datos", value |-> EmptyString]
    ELSE IF Last32(Pkcs8Der(key)) # PrivateScalar(encryptedData.recipient)
    THEN [thrown |-> TRUE, error |-> "Fallo al descifrar los datos", value |-> EmptyString]
    ELSE [thrown |-> FALSE, error |-> "", value |-> ParseOrString(encryptedData.plaintext)]

\* User.signData: a signature binds the signer's key pair and the message
signData(u, message) == [signer |-> PublicKeyPem(u), message |-> message]

\* the empty signature '' of the genesis block
EmptySignature == [signer |-> EmptyString, message |-> JsonStringify(GoodBlockData)]

(***************************************************************************)
(* Ledger entities.  A hash is a string of hex digits, modelled as a       *)
(* sequence of numbers in 0..15; "0" is <<0>>.                             *)
(***************************************************************************)
RECURSIVE StrNum(_)
StrNum(h) == IF h = <<>> THEN 0
             ELSE StrNum(SubSeq(h, 1, Len(h) - 1)) * HexBase + h[Len(h)]

DescriptionNum(d) ==
    CASE d = "Block creation" -> 1
      [] d = "Private Block Creation" -> 2
      [] d = "Compra con recompensas en tripcoin" -> 3
      [] OTHER -> 4

TxNum(tx) ==
    tx.processId + 2 * tx.timestamp + 3 * DescriptionNum(tx.description)
    + 5 * tx.data.recipient[2] + 7 * tx.data.plaintext[2].amount.v
    + 11 * tx.signature.signer[2]

RECURSIVE TxsNum(_)
TxsNum(txs) == IF txs = <<>> THEN 0
               ELSE 13 * TxsNum(Tail(txs)) + TxNum(Head(txs)) + 1

\* Block.calculateHash: a deterministic digest of
\* (index, timestamp, transactions, previousHash, nonce)
calculateHash(block) ==
    LET content == block.index + 3 * block.timestamp
                   + 5 * TxsNum(block.transactions)
                   + 7 * StrNum(block.previousHash)
        k == (content + block.nonce) % HashCycle
    IN  << (5 * k) % HexBase, (3 * k) % HexBase,
           (content + 2 * block.nonce) % HexBase >>

\* new Block(index, timestamp, transactions, previousHash, signature)
NewBlock(index, timestamp, transactions, previousHash, signature) ==
    LET fresh == [index |-> index, timestamp |-> timestamp,
                  transactions |-> transactions,
                  previousHash |-> previousHash, hash |-> <<>>,
                  nonce |-> 0, signature |-> signature, validator |-> EmptyString]
    IN  [fresh EXCEPT !.hash = calculateHash(fresh)]

\* Block.forgeBlock(validator): record the validator, compute the hash once
forgeBlock(block, validator) ==
    LET forged == [block EXCEPT !.validator = validator]
    IN  [forged EXCEPT !.hash = calculateHash(forged)]

\* String.startsWith('0'.repeat(n))
StartsWithZeros(h, n) ==
    /\ Len(h) >= n
    /\ \A i \in 1..n : h[i] = 0

(***************************************************************************)
(* Consensus Engine (ConsensusService).                                    *)
(***************************************************************************)
Validators == SelectSeq(users, LAMBDA user : getBalance(user) >= minStake)

RECURSIVE TotalStake(_)
TotalStake(vs) == IF vs = <<>> THEN 0
                  ELSE getBalance(Head(vs)) + TotalStake(Tail(vs))

\* the values the draw Math.random() * totalStake is taken from
RandomDraws ==
    IF consensusAlgorithm # "PoS" \/ Validators = <<>> THEN {0}
    ELSE {DrawStep * i : i \in 0..((TotalStake(Validators) \div DrawStep) - 1)}

RECURSIVE WalkValidators(_, _, _)
WalkValidators(vs, random, cumulative) ==
    IF vs = <<>> THEN EmptyString
    ELSE IF random <= cumulative + getBalance(Head(vs))
         THEN Head(vs).publicKey
         ELSE WalkValidators(Tail(vs), random, cumulative + getBalance(Head(vs)))

selectValidator(random) ==
    IF Len(Validators) = 0 THEN EmptyString
    ELSE WalkValidators(Validators, random, 0)

validatePoSBlock(block) ==
    IF block.validator = EmptyString THEN FALSE
    ELSE /\ HasUser(block.validator)
         /\ getBalance(UserAt(block.validator)) >= minStake
         /\ block.hash = calculateHash(block)

validateBlock(block) ==
    IF consensusAlgorithm = "PoW"
    THEN StartsWithZeros(block.hash, difficulty)
    ELSE IF consensusAlgorithm = "PoS" THEN validatePoSBlock(block)
    ELSE TRUE

\* variant: the search gives up after one nonce
MinePoW_Once(block) ==
    IF validateBlock(block) THEN block
    ELSE LET next == [block EXCEPT !.nonce = @ + 1]
         IN  [next EXCEPT !.hash = calculateHash(next)]

\* the PoW search loop: while (!validateBlock(block)) { nonce++; hash = calculateHash() }
RECURSIVE MinePoW(_)
MinePoW(block) ==
    IF validateBlock(block) THEN block
    ELSE LET next == [block EXCEPT !.nonce = @ + 1]
         IN  MinePoW([next EXCEPT !.hash = calculateHash(next)])

\* variant: with no validator the block is forged with an empty validator
mineBlock_ForgeAnyway(block, random) ==
    IF consensusAlgorithm = "PoW"
    THEN [thrown |-> FALSE, error |-> "", block |-> MinePoW(block)]
    ELSE [thrown |-> FALSE, error |-> "",
          block |-> forgeBlock(block, selectValidator(random))]

\* mineBlock: the mined block, or the error it throws
mineBlock(block, random) ==
    IF consensusAlgorithm = "PoW"
    THEN [thrown |-> FALSE, error |-> "", block |-> MinePoW(block)]
    ELSE IF selectValidator(random) = EmptyString
         THEN [thrown |-> TRUE, error |-> "No validators available", block |-> block]
         ELSE [thrown |-> FALSE, error |-> "",
               block |-> forgeBlock(block, selectValidator(random))]

\* validateChain: the loop over adjacent pairs, run only under PoW
RECURSIVE ValidateChainFrom(_, _)
ValidateChainFrom(c, i) ==
    IF i > Len(c) THEN TRUE
    ELSE IF c[i].previousHash # c[i - 1].hash \/ ~validateBlock(c[i])
         THEN FALSE
         ELSE ValidateChainFrom(c, i + 1)

validateChain(c) ==
    IF consensusAlgorithm = "PoW" THEN ValidateChainFrom(c, 2) ELSE TRUE

(***************************************************************************)
(* Storage rows (Prisma).  A timestamp is stored as a Date and read back   *)
(* with toISOString; an amount is stored as a string and read back with    *)
(* parseFloat.                                                             *)
(***************************************************************************)
NewDate(iso) == <<"date", iso>>
toISOString(date) == date[2]
NumberToString(n) == <<"str", n>>
parseFloat(str) == str[2]

TxRow(tx) == [tx EXCEPT !.timestamp = NewDate(tx.timestamp)]
TxOfRow(row) == [row EXCEPT !.timestamp = toISOString(row.timestamp)]

\* the row saveBlockToPrisma creates: the validator column is always 'system'
BlockRow(block) ==
    [index |-> block.index, timestamp |-> NewDate(block.timestamp),
     previousHash |-> block.previousHash, hash |-> block.hash,
     nonce |-> block.nonce, signature |-> block.signature,
     validator |-> SystemAddress,
     transactions |-> [i \in 1..Len(block.transactions) |-> TxRow(block.transactions[i])]]

\* the row createAndSaveGenesisBlock creates
GenesisRow(block) == [BlockRow(block) EXCEPT !.validator = block.validator]

\* variant: the block is rebuilt from the row without restoring hash, nonce
\* and validator
BlockOfRow_Fresh(row) ==
    NewBlock(row.index, toISOString(row.timestamp),
             [i \in 1..Len(row.transactions) |-> TxOfRow(row.transactions[i])], row.previousHash,
             row.signature)

\* initializeChain: a stored row back to a Block, keeping hash, nonce, validator
BlockOfRow(row) ==
    [NewBlock(row.index, toISOString(row.timestamp),
              [i \in 1..Len(row.transactions) |-> TxOfRow(row.transactions[i])], row.previousHash,
              row.signature)
       EXCEPT !.hash = row.hash, !.nonce = row.nonce,
              !.validator = row.validator]

\* findMany({orderBy: {index: 'asc'}}); rows of equal index keep insertion order
RECURSIVE OrderByIndex(_)
OrderByIndex(rows) ==
    IF rows = <<>> THEN <<>>
    ELSE LET m == CHOOSE i \in 1..Len(rows) :
                    /\ \A j \in 1..Len(rows) : rows[i].index <= rows[j].index
                    /\ \A j \in 1..(i - 1) : rows[j].index > rows[i].index
         IN  <<rows[m]>> \o
             OrderByIndex(SubSeq(rows, 1, m - 1) \o SubSeq(rows, m + 1, Len(rows)))

saveBlockToPrisma(rows, block) == Append(rows, BlockRow(block))

RECURSIVE SaveAll(_, _)
SaveAll(rows, blocks) ==
    IF blocks = <<>> THEN rows
    ELSE SaveAll(saveBlockToPrisma(rows, Head(blocks)), Tail(blocks))

\* prisma.account.findFirst({where: {publicKey}})
HasAccount(publicKey) == \E i \in 1..Len(accounts) : accounts[i].publicKey = publicKey
AccountOf(publicKey) ==
    accounts[CHOOSE i \in 1..Len(accounts) : accounts[i].publicKey = publicKey]

\* variant: links every new block to the first block
getLatestBlock_First == chain[1]

\* ChainService.getLatestBlock
getLatestBlock == chain[Len(chain)]

\* the single transaction of a created block
NewTransaction(processId, blockData, publicKey, description, now) ==
    [processId |-> processId,
     data |-> encryptData(blockData, publicKey),
     description |-> description,
     timestamp |-> now,
     signature |-> signData(publicKey[2], JsonStringify(blockData))]

(***************************************************************************)
(* Chain Manager (ChainService) and the account directory.                 *)
(***************************************************************************)
\* the createBlock calls that can be in progress at the same time
Callers == {1, 2, 3}

Init ==
    /\ consensusAlgorithm \in {"PoW", "PoS"}
    /\ booted = FALSE
    /\ chain = <<>>
    /\ store = <<>>
    /\ awaiting = [c \in Callers |-> <<>>]
    /\ pendingTransactions = <<>>
    /\ users = <<>>
    /\ accounts = <<>>
    /\ gasUsage = <<>>
    /\ baseGasPrice = PriceScale
    /\ opRuns = 0
    /\ adjustments = 0
    /\ metering = [c \in Callers |-> <<>>]
    /\ tokens = <<>>
    /\ result = Returned("constructor", TRUE, "")

\* onModuleInit -> initializeChain
InitializeChain(now) ==
    /\ ~booted
    /\ booted' = TRUE
    /\ IF Len(store) = 0
       THEN LET genesisBlock ==
                    [NewBlock(0, now, <<>>, <<0>>, EmptySignature)
                       EXCEPT !.validator = SystemAddress]
            IN  /\ store' = Append(store, GenesisRow(genesisBlock))
                /\ chain' = <<genesisBlock>>
       ELSE /\ chain' = [i \in 1..Len(store) |-> BlockOfRow(OrderByIndex(store)[i])]
            /\ UNCHANGED store
    /\ result' = Returned("initializeChain", TRUE, "")
    /\ UNCHANGED <<consensusAlgorithm, awaiting, pendingTransactions, users, accounts>>
    /\ UNCHANGED gasVars

\* AccountService.createAccount: a new in-memory User and its account row;
\* u is the fresh identity (key pair and account hash) the constructor generates
CreateAccount(u, hasNameAndEmail) ==
    /\ u = Len(users) + 1
    /\ IF ~hasNameAndEmail
       THEN /\ result' = Returned("createAccount", FALSE,
                                  "Name and email are required to create an account")
            /\ UNCHANGED <<users, accounts>>
       ELSE /\ users' = Append(users, [accountHash |-> AccountHash(u),
                                       publicKey |-> PublicKeyPem(u),
                                       tripcoin |-> 0])
            /\ accounts' = Append(accounts, [accountHash |-> AccountHash(u),
                                             publicKey |-> PublicKeyPem(u),
                                             tripcoin |-> NumberToString(0),
                                             rewardPlanEnabled |-> FALSE])
            /\ result' = Returned("createAccount", TRUE, "")
    /\ UNCHANGED <<consensusAlgorithm, chainVars>>
    /\ UNCHANGED gasVars

\* User.updateBalance('tripcoin', amount) on an in-memory user
UserUpdateBalance(i, amount) ==
    /\ i \in 1..Len(users)
    /\ users[i].tripcoin + amount <= MaxStakeSteps * minStake
    /\ users' = [users EXCEPT ![i].tripcoin = @ + amount]
    /\ result' = Returned("User.updateBalance", TRUE, "")
    /\ UNCHANGED <<consensusAlgorithm, chainVars, accounts>>
    /\ UNCHANGED gasVars

\* AccountService.setRewardPlanEnabled
SetRewardPlanEnabled(i, enabled) ==
    /\ i \in 1..Len(accounts)
    /\ accounts[i].rewardPlanEnabled # enabled
    /\ accounts' = [accounts EXCEPT ![i].rewardPlanEnabled = enabled]
    /\ result' = Returned("setRewardPlanEnabled", TRUE, "")
    /\ UNCHANGED <<consensusAlgorithm, chainVars, users>>
    /\ UNCHANGED gasVars

\* mineBlock then validateBlock, as the three block-creating calls run them
MineAndValidate(newBlock, random) ==
    LET mined == mineBlock(newBlock, random)
    IN  IF mined.thrown
        THEN [thrown |-> TRUE, valid |-> FALSE, error |-> mined.error,
              block |-> newBlock, verdict |-> "Unmined"]
        ELSE IF validateBlock(mined.block)
             THEN [thrown |-> FALSE, valid |-> TRUE, error |-> "",
                   block |-> mined.block, verdict |-> "Accepted"]
             ELSE [thrown |-> FALSE, valid |-> FALSE, error |-> "Invalid block",
                   block |-> mined.block, verdict |-> "Rejected"]

\* variant: the block is appended whenever mining did not throw
ShouldAppend_IgnoresVerdict(outcome) == ~outcome.thrown

\* if (this.consensusService.validateBlock(newBlock)) { save; push }
ShouldAppend(outcome) == ~outcome.thrown /\ outcome.valid

\* ChainService.createBlock([blockData, publicKeyString])
CreateBlock(blockData, publicKeyString, now, processId, random) ==
    /\ booted
    /\ Len(chain) < MaxChain
    /\ IF ~isBlockData(blockData)
       THEN /\ result' = Returned("createBlock", FALSE, "Estructura de blockData invalida")
            /\ UNCHANGED <<chain, store>>
       ELSE IF publicKeyString = MalformedPem
       THEN /\ result' = Returned("createBlock", FALSE, "createPublicKey failed")
            /\ UNCHANGED <<chain, store>>
       ELSE IF ~\E i \in 1..Len(users) : users[i].publicKey = publicKeyString
       THEN /\ result' = Returned("createBlock", FALSE, "Invalid public key")
            /\ UNCHANGED <<chain, store>>
       ELSE LET transaction == NewTransaction(processId, blockData, publicKeyString,
                                              "Block creation", now)
                newBlock == NewBlock(Len(chain), now, <<transaction>>,
                                     getLatestBlock.hash, transaction.signature)
                outcome == MineAndValidate(newBlock, random)
            IN  IF ShouldAppend(outcome)
                THEN /\ store' = saveBlockToPrisma(store, outcome.block)
                     /\ chain' = Append(chain, outcome.block)
                     /\ result' = [Returned("createBlock", TRUE, "")
                                     EXCEPT !.verdict = outcome.verdict]
                ELSE /\ result' = [Returned("createBlock", FALSE, outcome.error)
                                     EXCEPT !.verdict = outcome.verdict]
                     /\ UNCHANGED <<chain, store>>
    /\ UNCHANGED <<consensusAlgorithm, booted, awaiting, pendingTransactions, users, accounts>>
    /\ UNCHANGED gasVars

\* ChainService.createPrivateBlock(blockData, publicKeyString): errors are thrown
CreatePrivateBlock(blockData, publicKeyString, now, processId, random) ==
    /\ booted
    /\ Len(chain) < MaxChain
    /\ IF publicKeyString = MalformedPem
       THEN /\ result' = Threw("createPrivateBlock", "createPublicKey failed")
            /\ UNCHANGED <<chain, store>>
       ELSE IF ~HasAccount(publicKeyString)
       THEN /\ result' = Threw("createPrivateBlock", "User not found")
            /\ UNCHANGED <<chain, store>>
       ELSE LET transaction == NewTransaction(processId, blockData, publicKeyString,
                                              "Private Block Creation", now)
                newBlock == NewBlock(Len(chain), now, <<transaction>>,
                                     getLatestBlock.hash, transaction.signature)
                outcome == MineAndValidate(newBlock, random)
            IN  IF ShouldAppend(outcome)
                THEN /\ store' = saveBlockToPrisma(store, outcome.block)
                     /\ chain' = Append(chain, outcome.block)
                     /\ result' = [Returned("createPrivateBlock", TRUE, "")
                                     EXCEPT !.verdict = outcome.verdict]
                ELSE /\ result' = [Threw("createPrivateBlock", outcome.error)
                                     EXCEPT !.verdict = outcome.verdict]
                     /\ UNCHANGED <<chain, store>>
    /\ UNCHANGED <<consensusAlgorithm, booted, awaiting, pendingTransactions, users, accounts>>
    /\ UNCHANGED gasVars

\* ChainService.createBlockWithRewards(blockData, publicKeyString, currency);
\* rewardOutcome is what the token lookup and the reward computation do after
\* the block has been appended
CreateBlockWithRewards(blockData, publicKeyString, currency, now, processId, random, rewardOutcome) ==
    /\ booted
    /\ Len(chain) < MaxChain
    /\ IF publicKeyString = MalformedPem
       THEN /\ result' = Returned("createBlockWithRewards", FALSE, "createPublicKey failed")
            /\ UNCHANGED <<chain, store>>
       ELSE IF ~HasAccount(publicKeyString)
       THEN /\ result' = Returned("createBlockWithRewards", FALSE, "Cuenta no encontrada")
            /\ UNCHANGED <<chain, store>>
       ELSE IF ~AccountOf(publicKeyString).rewardPlanEnabled
       THEN /\ result' = Returned("createBlockWithRewards", FALSE,
                                  "El plan de recompensas no esta activado para esta cuenta")
            /\ UNCHANGED <<chain, store>>
       ELSE IF currency # "tripcoin"
       THEN /\ result' = Returned("createBlockWithRewards", FALSE,
                                  "La criptomoneda no esta disponible en la cuenta")
            /\ UNCHANGED <<chain, store>>
       ELSE IF blockData.amount.type # "number"
       THEN /\ result' = Returned("createBlockWithRewards", FALSE,
                                  "El campo amount debe ser un numero")
            /\ UNCHANGED <<chain, store>>
       ELSE IF blockData.to.type # "string" \/ blockData.from.type # "string"
       THEN /\ result' = Returned("createBlockWithRewards", FALSE,
                                  "Los campos to y from deben ser strings")
            /\ UNCHANGED <<chain, store>>
       ELSE LET transaction == NewTransaction(processId, blockData, publicKeyString,
                                              "Compra con recompensas en tripcoin", now)
                newBlock == NewBlock(Len(chain), now, <<transaction>>,
                                     getLatestBlock.hash, transaction.signature)
                outcome == MineAndValidate(newBlock, random)
            IN  IF ShouldAppend(outcome)
                THEN /\ store' = saveBlockToPrisma(store, outcome.block)
                     /\ chain' = Append(chain, outcome.block)
                     /\ result' =
                          [(IF rewardOutcome = "noToken"
                            THEN Returned("createBlockWithRewards", FALSE,
                                          "No token found for this public key")
                            ELSE IF rewardOutcome = "rewardFailure"
                            THEN Returned("createBlockWithRewards", FALSE,
                                          "calculateAutoScalableRewards failed")
                            ELSE Returned("createBlockWithRewards", TRUE, ""))
                             EXCEPT !.verdict = outcome.verdict]
                ELSE /\ result' =
                          [Returned("createBlockWithRewards", FALSE,
                                    IF outcome.thrown THEN outcome.error
                                    ELSE "Bloque invalido")
                             EXCEPT !.verdict = outcome.verdict]
                     /\ UNCHANGED <<chain, store>>
    /\ UNCHANGED <<consensusAlgorithm, booted, awaiting, pendingTransactions, users, accounts>>
    /\ UNCHANGED gasVars

\* variant: a candidate of equal length is accepted too
IsLonger_OrEqual(receivedChain, localChain) == Len(receivedChain) >= Len(localChain)

\* variant: any candidate of another length is accepted
IsLonger_Different(receivedChain, localChain) == Len(receivedChain) # Len(localChain)

\* receivedChain.length > this.chain.length
IsLonger(receivedChain, localChain) == Len(receivedChain) > Len(localChain)

\* variant: the stored blocks are deleted before the candidate is examined
SynchronizeChain_DeleteFirst(receivedChain) ==
    /\ booted
    /\ IF IsLonger(receivedChain, chain) /\ validateChain(receivedChain)
       THEN /\ store' = SaveAll(<<>>, receivedChain)
            /\ chain' = receivedChain
            /\ result' = Returned("synchronizeChain", TRUE, "")
       ELSE /\ store' = <<>>
            /\ result' = Returned("synchronizeChain", FALSE, "Received chain is invalid")
            /\ UNCHANGED chain
    /\ UNCHANGED <<consensusAlgorithm, booted, awaiting, pendingTransactions, users, accounts>>
    /\ UNCHANGED gasVars

\* ChainService.synchronizeChain(receivedChain, accountHash)
SynchronizeChain(receivedChain) ==
    /\ booted
    /\ IF IsLonger(receivedChain, chain)
       THEN IF validateChain(receivedChain)
            THEN /\ store' = SaveAll(<<>>, receivedChain)
                 /\ chain' = receivedChain
                 /\ result' = Returned("synchronizeChain", TRUE, "")
            ELSE /\ result' = Returned("synchronizeChain", FALSE,
                                       "Received chain is invalid")
                 /\ UNCHANGED <<chain, store>>
       ELSE /\ result' = Returned("synchronizeChain", FALSE,
                                  "Received chain is not longer than the local chain")
            /\ UNCHANGED <<chain, store>>
    /\ UNCHANGED <<consensusAlgorithm, booted, awaiting, pendingTransactions, users, accounts>>
    /\ UNCHANGED gasVars

\* ChainService.isChainValid()
IsChainValid ==
    /\ booted
    /\ result' = [Returned("isChainValid", TRUE, "") EXCEPT !.value = validateChain(chain)]
    /\ UNCHANGED <<consensusAlgorithm, chainVars, users, accounts>>
    /\ UNCHANGED gasVars

(***************************************************************************)
(* The chains a peer can send.  Block 0 is a genesis block or not; every   *)
(* later block is honest (linked, mined, hash recomputable), badly linked, *)
(* carries a forged hash with leading zeros, or was never mined.           *)
(***************************************************************************)
PeerTransaction ==
    NewTransaction(1, GoodBlockData, PublicKeyPem(1), "Block creation", 1)

\* the least nonce whose hash meets the difficulty
PeerMined(block) ==
    LET n == CHOOSE n \in 0..(HashCycle - 1) :
               /\ StartsWithZeros(calculateHash([block EXCEPT !.nonce = n]), difficulty)
               /\ \A m \in 0..(n - 1) :
                    ~StartsWithZeros(calculateHash([block EXCEPT !.nonce = m]), difficulty)
        mined == [block EXCEPT !.nonce = n]
    IN  [mined EXCEPT !.hash = calculateHash(mined)]

\* a nonce whose hash does not meet the difficulty
PeerUnmined(block) ==
    LET n == CHOOSE n \in 0..(HashCycle - 1) :
               ~StartsWithZeros(calculateHash([block EXCEPT !.nonce = n]), difficulty)
        unmined == [block EXCEPT !.nonce = n]
    IN  [unmined EXCEPT !.hash = calculateHash(unmined)]

PeerGenesis(kind) ==
    IF kind = "genesis"
    THEN [NewBlock(0, 1, <<>>, <<0>>, EmptySignature) EXCEPT !.validator = SystemAddress]
    ELSE [NewBlock(0, 1, <<PeerTransaction>>, <<0, 0, 1>>, PeerTransaction.signature)
            EXCEPT !.validator = PublicKeyPem(1)]

PeerBlock(kind, previousBlock) ==
    LET linked == [NewBlock(previousBlock.index + 1, 1, <<PeerTransaction>>,
                            previousBlock.hash, PeerTransaction.signature)
                     EXCEPT !.validator = PublicKeyPem(1)]
        unlinked == [linked EXCEPT !.previousHash = <<15, 15, 15>>]
        honest == PeerMined(linked)
    IN  CASE kind = "honest" -> honest
          [] kind = "badLink" -> PeerMined(unlinked)
          [] kind = "forgedHash" ->
                [honest EXCEPT !.hash = <<0, 0, (honest.hash[3] + 1) % HexBase>>]
          [] OTHER -> PeerUnmined(linked)

PeerBlockKinds == {"honest", "badLink", "forgedHash", "unmined"}
PeerGenesisKinds == {"genesis", "nonGenesis"}

RECURSIVE PeerChain(_, _)
PeerChain(genesisKind, kinds) ==
    IF kinds = <<>> THEN <<PeerGenesis(genesisKind)>>
    ELSE LET prefix == PeerChain(genesisKind, SubSeq(kinds, 1, Len(kinds) - 1))
         IN  Append(prefix, PeerBlock(kinds[Len(kinds)], prefix[Len(prefix)]))

\* all blocks honest but at most one
PeerKindSeqs ==
    {kinds \in UNION {[1..n -> PeerBlockKinds] : n \in 0..(MaxChain - 1)} :
        Cardinality({i \in DOMAIN kinds : kinds[i] # "honest"}) <= 1}

CandidateChains ==
    {PeerChain("genesis", kinds) : kinds \in PeerKindSeqs}
    \cup {PeerChain("nonGenesis", [i \in 1..n |-> "honest"]) : n \in 0..(MaxChain - 1)}

(***************************************************************************)
(* The Chain Manager specification.                                        *)
(***************************************************************************)
ProcessIds == {1}
\* <<currency, what the token lookup and the reward computation do>>
RewardInputs == {<<"tripcoin", "ok">>, <<"tripcoin", "noToken">>,
                 <<"tripcoin", "rewardFailure">>, <<"bitcoin", "ok">>}

Next ==
    \/ \E now \in Times : InitializeChain(now)
    \/ \E u \in UserIds, ok \in BOOLEAN : CreateAccount(u, ok)
    \/ /\ consensusAlgorithm = "PoS"   \* only selectValidator reads the stake
       /\ \E i \in UserIds : UserUpdateBalance(i, minStake)
    \/ \E i \in UserIds, enabled \in BOOLEAN : SetRewardPlanEnabled(i, enabled)
    \/ \E d \in BlockDatas, k \in PemInputs, now \in Times, p \in ProcessIds,
          r \in RandomDraws : CreateBlock(d, k, now, p, r)
    \/ \E k \in PemInputs, now \in Times, p \in ProcessIds, r \in RandomDraws :
          CreatePrivateBlock(GoodBlockData, k, now, p, r)
    \/ \E d \in BlockDatas, k \in PemInputs, co \in RewardInputs, now \in Times,
          p \in ProcessIds, r \in RandomDraws :
          CreateBlockWithRewards(d, k, co[1], now, p, r, co[2])
    \/ \E c \in CandidateChains : SynchronizeChain(c)
    \/ IsChainValid

Spec == Init /\ [][Next]_vars

\* chain synchronisation with the operations that build the local chain
NextSync ==
    \/ \E now \in Times : InitializeChain(now)
    \/ \E u \in UserIds, ok \in BOOLEAN : CreateAccount(u, ok)
    \/ \E d \in BlockDatas, k \in PemInputs, now \in Times, p \in ProcessIds,
          r \in RandomDraws : CreateBlock(d, k, now, p, r)
    \/ \E c \in CandidateChains : SynchronizeChain(c)

SpecSync == Init /\ [][NextSync]_vars

(***************************************************************************)
(* Properties of the Chain Manager.                                        *)
(***************************************************************************)

\* C1: in every reachable state, under either consensus algorithm, every
\* block after the first carries the hash of its predecessor as previousHash.
C1_ChainLinkage ==
    booted => \A i \in 2..Len(chain) : chain[i].previousHash = chain[i - 1].hash

\* C2: synchronizeChain reports success exactly when the candidate is
\* strictly longer than the local chain and validateChain accepts it, and
\* then the local chain is the candidate, block for block.
C2_ForkChoice ==
    [][result'.op = "synchronizeChain" =>
          \A c \in CandidateChains :
              SynchronizeChain(c) =>
                  /\ result'.success <=> (Len(c) > Len(chain) /\ validateChain(c))
                  /\ result'.success => chain' = c
                  /\ ~result'.success => chain' # c \/ c = chain]_vars

C2_Witness ==
    /\ result.op = "synchronizeChain"
    /\ result.success
    /\ Len(chain) >= 2
    /\ chain \in CandidateChains

\* C3: a candidate that is not strictly longer, or that validateChain
\* refuses, leaves the chain and the stored blocks as they were, and the
\* refusal is a returned {success: false}, not an exception.
C3_RejectedSyncChangesNothing ==
    [][result'.op = "synchronizeChain" =>
          \A c \in CandidateChains :
              (~(Len(c) > Len(chain) /\ validateChain(c)) /\ SynchronizeChain(c)) =>
                  /\ chain' = chain
                  /\ store' = store
                  /\ ~result'.success
                  /\ ~result'.thrown]_vars

C3_Witness ==
    /\ result.op = "synchronizeChain"
    /\ result.error = "Received chain is invalid"
    /\ Len(store) >= 2

\* C4: when validateBlock refuses the block createBlock or createPrivateBlock
\* has just mined, the call fails with the invalid-block error and neither
\* the chain nor the stored blocks gain a block.
C4_NoPartialAppend ==
    [][(result'.op \in {"createBlock", "createPrivateBlock"}
        /\ result'.verdict = "Rejected") =>
           /\ ~result'.success
           /\ result'.error = "Invalid block"
           /\ chain' = chain
           /\ store' = store]_vars

C4_Witness ==
    /\ result.op = "createBlock"
    /\ result.verdict = "Rejected"
    /\ result.error = "Invalid block"

\* C5: a successful createBlock appends exactly one block, whose index is the
\* previous length, whose previousHash is the previous head's hash and which
\* carries one transaction; the blocks already there are untouched.
C5_CreateBlockAppendsOne ==
    [][(result'.op = "createBlock" /\ result'.success) =>
           /\ Len(chain') = Len(chain) + 1
           /\ SubSeq(chain', 1, Len(chain)) = chain
           /\ chain'[Len(chain')].index = Len(chain)
           /\ chain'[Len(chain')].previousHash = chain[Len(chain)].hash
           /\ Len(chain'[Len(chain')].transactions) = 1]_vars

C5_Witness ==
    /\ result.op = "createBlock"
    /\ result.success
    /\ Len(chain) = 3

\* C6: every block of the chain at index >= 1 has a hash equal to
\* calculateHash over its current fields, under PoW and under PoS.
C6_HashInvariant ==
    booted => \A i \in 2..Len(chain) : chain[i].hash = calculateHash(chain[i])

\* C7: validateChain returns true exactly when every block after the first
\* is linked to its predecessor and passes validateBlock, whichever
\* consensus algorithm is configured.
C7_ValidateChainExact ==
    result.op = "isChainValid" =>
        (result.value <=>
            \A i \in 2..Len(chain) :
                /\ chain[i].previousHash = chain[i - 1].hash
                /\ validateBlock(chain[i]))

\* C8: every step leaves the chain as it was, appends one block to it, or
\* replaces it by a synchronizeChain candidate that is strictly longer.
C8_AppendOrReplace ==
    [][\/ chain' = chain
       \/ /\ Len(chain') = Len(chain) + 1
          /\ SubSeq(chain', 1, Len(chain)) = chain
       \/ /\ chain' \in CandidateChains
          /\ Len(chain') > Len(chain)]_vars

C8_Witness ==
    /\ result.op = "createBlock"
    /\ result.success
    /\ Len(chain) = 3
    /\ SubSeq(chain, 1, 2) \in CandidateChains

(***************************************************************************)
(* Gas Meter (GasService).  Prices are per gas unit; a price of 0.000001   *)
(* tripcoin is PriceScale units, and so are balances and costs.            *)
(***************************************************************************)
GAS_COSTS ==
    [TRANSFER |-> 21000,
     TOKEN_TRANSFER |-> 65000,
     CONTRACT_DEPLOYMENT |-> 200000,
     STORAGE_WRITE |-> 20000,
     STORAGE_READ |-> 5000,
     BLOCK_WITH_REWARDS_CREATION |-> 3000,
     PRIVATE_BLOCK_CREATION |-> 3000]

OperationTypes == DOMAIN GAS_COSTS

targetGasPerBlock == 15000000
RecentWindow == 10

\* variant: maxCost is computed from the operation's gas units, not the limit
calculateGasCost_MaxFromUnits(operationType, gasLimit, gasPriorityFee) ==
    LET gasUnits == GAS_COSTS[operationType]
        totalGasPrice == baseGasPrice + gasPriorityFee
    IN  [gasUnits |-> gasUnits,
         baseGasCost |-> gasUnits * baseGasPrice,
         priorityFee |-> gasUnits * gasPriorityFee,
         total |-> gasUnits * totalGasPrice,
         maxCost |-> gasUnits * totalGasPrice]

calculateGasCost(operationType, gasLimit, gasPriorityFee) ==
    LET gasUnits == GAS_COSTS[operationType]
        totalGasPrice == baseGasPrice + gasPriorityFee
    IN  [gasUnits |-> gasUnits,
         baseGasCost |-> gasUnits * baseGasPrice,
         priorityFee |-> gasUnits * gasPriorityFee,
         total |-> gasUnits * totalGasPrice,
         maxCost |-> gasLimit * totalGasPrice]

Min(a, b) == IF a <= b THEN a ELSE b

\* prisma.account.findUnique({where: {accountHash}})
HasAccountHash(accountHash) ==
    \E i \in 1..Len(accounts) : accounts[i].accountHash = accountHash
AccountIndex(accountHash) ==
    CHOOSE i \in 1..Len(accounts) : accounts[i].accountHash = accountHash

\* AccountService.getBalance(accountHash, 'tripcoin')
AccountBalance(accountHash) == parseFloat(accounts[AccountIndex(accountHash)].tripcoin)

\* the rows after AccountService.updateBalance(accountHash, 'tripcoin', amount)
WithBalanceUpdate(rows, accountHash, amount) ==
    [rows EXCEPT ![AccountIndex(accountHash)].tripcoin =
        NumberToString(parseFloat(@) + amount)]

\* AccountService.updateBalance(accountHash, 'tripcoin', amount), called directly
UpdateBalance(accountHash, amount) ==
    /\ IF ~HasAccountHash(accountHash)
       THEN /\ result' = Threw("updateBalance", "User not found")
            /\ UNCHANGED accounts
       ELSE /\ AccountBalance(accountHash) + amount <= MaxCredits * CreditAmount
            /\ amount < 0 => AccountBalance(accountHash) + amount >= -(MaxCredits * CreditAmount)
            /\ accounts' = WithBalanceUpdate(accounts, accountHash, amount)
            /\ result' = Returned("updateBalance", TRUE, "")
    /\ UNCHANGED <<consensusAlgorithm, chainVars, users>>
    /\ UNCHANGED gasVars

\* variant: the success path charges base cost plus priority fee
SuccessCharge_Total(gasCost) == gasCost.total

\* the amount executeTransaction debits after operation() succeeded
SuccessCharge(gasCost) == gasCost.baseGasCost

\* variant: the failure path ignores the gas limit
FailureCharge_Units(gasCost, gasLimit, gasPriorityFee) == gasCost.total

\* the amount executeTransaction debits after operation() failed
FailureCharge(gasCost, gasLimit, gasPriorityFee) ==
    LET gasUsed == Min(gasCost.gasUnits, gasLimit)
    IN  gasUsed * (baseGasPrice + gasPriorityFee)

\* GasService.executeTransaction; operationSucceeds is what the callback does
ExecuteTransaction(accountHash, operationType, gasLimit, gasPriorityFee, operationSucceeds) ==
    LET gasCost == calculateGasCost(operationType, gasLimit, gasPriorityFee)
    IN  /\ opRuns < MaxCalls
        /\ IF ~HasAccountHash(accountHash)
           THEN /\ result' = Threw("executeTransaction", "User not found")
                /\ UNCHANGED <<accounts, gasUsage, opRuns>>
           ELSE IF AccountBalance(accountHash) < gasCost.maxCost
           THEN /\ result' = Threw("executeTransaction",
                                   "Insufficient TripCoin balance for gas")
                /\ UNCHANGED <<accounts, gasUsage, opRuns>>
           ELSE IF operationSucceeds
           THEN /\ opRuns' = opRuns + 1
                /\ accounts' = WithBalanceUpdate(accounts, accountHash,
                                                 -SuccessCharge(gasCost))
                /\ gasUsage' = Append(gasUsage,
                                      [accountHash |-> accountHash,
                                       gasUnits |-> gasCost.gasUnits,
                                       baseFee |-> gasCost.baseGasCost,
                                       priorityFee |-> gasCost.priorityFee])
                /\ result' = Returned("executeTransaction", TRUE, "")
           ELSE /\ opRuns' = opRuns + 1
                /\ accounts' = WithBalanceUpdate(accounts, accountHash,
                                   -FailureCharge(gasCost, gasLimit, gasPriorityFee))
                /\ result' = Threw("executeTransaction", "operation failed")
                /\ UNCHANGED gasUsage
        /\ UNCHANGED <<consensusAlgorithm, chainVars, users, baseGasPrice, adjustments, metering, tokens>>

\* the most recent rows, at most RecentWindow of them
RecentBlocks == SubSeq(store, Len(store) - Min(Len(store), RecentWindow) + 1, Len(store))

RECURSIVE GasUsedIn(_)
GasUsedIn(rows) ==
    IF rows = <<>> THEN 0
    ELSE Len(Head(rows).transactions) * GAS_COSTS.TRANSFER + GasUsedIn(Tail(rows))

\* variant: a window exactly at the target counts as congested
AboveTarget_OrEqual(rows) ==
    /\ Len(rows) > 0
    /\ GasUsedIn(rows) >= targetGasPerBlock * Len(rows)

\* averageGasUsed > targetGasPerBlock, for averageGasUsed = sum / rows.length
AboveTarget(rows) ==
    /\ Len(rows) > 0
    /\ GasUsedIn(rows) > targetGasPerBlock * Len(rows)

\* GasService.adjustBaseGasPrice: the average of an empty window is NaN,
\* which is not above the target
AdjustBaseGasPrice ==
    /\ adjustments < MaxAdjust
    /\ adjustments' = adjustments + 1
    /\ IF AboveTarget(RecentBlocks)
       THEN baseGasPrice' = (baseGasPrice * 9) \div 8
       ELSE baseGasPrice' = (baseGasPrice * 7) \div 8
    /\ result' = Returned("adjustBaseGasPrice", TRUE, "")
    /\ UNCHANGED <<consensusAlgorithm, chainVars, users, accounts, gasUsage, opRuns, metering, tokens>>

(***************************************************************************)
(* The Gas Meter specification.                                            *)
(***************************************************************************)
OperationInputs == {"TRANSFER", "STORAGE_READ", "CONTRACT_DEPLOYMENT"}
GasLimits == {0, 21000, 100000}
PriorityFees == {0, PriceScale}

InitGas ==
    /\ Init
    /\ consensusAlgorithm = "PoS"

NextGas ==
    \/ \E u \in UserIds, ok \in BOOLEAN : CreateAccount(u, ok)
    \/ \E h \in AccountHashes : UpdateBalance(h, CreditAmount)
    \/ \E h \in AccountHashes, t \in OperationInputs, l \in GasLimits,
          f \in PriorityFees, ok \in BOOLEAN : ExecuteTransaction(h, t, l, f, ok)
    \/ AdjustBaseGasPrice

SpecGas == InitGas /\ [][NextGas]_vars

\* C9: when the tripcoin balance is below gasLimit x (basePrice + priorityFee),
\* executeTransaction throws the insufficient-gas error, the operation is not
\* run, the balance is unchanged and no gas usage row is added.
C9_GasPrecheck ==
    [][result'.op = "executeTransaction" =>
          \/ /\ result'.thrown
             /\ result'.error = "Insufficient TripCoin balance for gas"
             /\ opRuns' = opRuns
             /\ accounts' = accounts
             /\ gasUsage' = gasUsage
          \/ \A h \in AccountHashes : HasAccountHash(h) =>
               \A l \in GasLimits, f \in PriorityFees :
                 AccountBalance(h) < l * (baseGasPrice + f) =>
                   \A t \in OperationInputs, ok \in BOOLEAN :
                     ~ExecuteTransaction(h, t, l, f, ok)]_vars

C9_Witness ==
    /\ result.op = "executeTransaction"
    /\ result.error = "Insufficient TripCoin balance for gas"
    /\ \E i \in 1..Len(accounts) : parseFloat(accounts[i].tripcoin) > 0

\* C10: when the precheck passes and the operation succeeds, the balance
\* drops by exactly gasUnits x basePrice, one gas usage row with the account,
\* the gas units, the base fee and the priority fee is added, and the call
\* returns success.
C10_GasChargeOnSuccess ==
    [][result'.op = "executeTransaction" =>
          \A h \in AccountHashes : HasAccountHash(h) =>
            \A l \in GasLimits, f \in PriorityFees :
              AccountBalance(h) >= l * (baseGasPrice + f) =>
                \A t \in OperationInputs :
                  ExecuteTransaction(h, t, l, f, TRUE) =>
                      /\ parseFloat(accounts'[AccountIndex(h)].tripcoin)
                           = AccountBalance(h) - GAS_COSTS[t] * baseGasPrice
                      /\ gasUsage' = Append(gasUsage,
                                            [accountHash |-> h,
                                             gasUnits |-> GAS_COSTS[t],
                                             baseFee |-> GAS_COSTS[t] * baseGasPrice,
                                             priorityFee |-> GAS_COSTS[t] * f])
                      /\ opRuns' = opRuns + 1
                      /\ result'.success
                      /\ ~result'.thrown]_vars

C10_Witness ==
    /\ result.op = "executeTransaction"
    /\ result.success
    /\ Len(gasUsage) >= 1
    /\ gasUsage[Len(gasUsage)].gasUnits = 21000
    /\ gasUsage[Len(gasUsage)].baseFee = 21000 * PriceScale
    /\ gasUsage[Len(gasUsage)].priorityFee > 0

\* C11: when the precheck passes and the operation fails, the balance drops
\* by exactly min(gasUnits, gasLimit) x (basePrice + priorityFee), no gas
\* usage row is added, and the caller receives the operation's own error.
C11_GasChargeOnFailure ==
    [][result'.op = "executeTransaction" =>
          \A h \in AccountHashes : HasAccountHash(h) =>
            \A l \in GasLimits, f \in PriorityFees :
              AccountBalance(h) >= l * (baseGasPrice + f) =>
                \A t \in OperationInputs :
                  ExecuteTransaction(h, t, l, f, FALSE) =>
                      /\ parseFloat(accounts'[AccountIndex(h)].tripcoin)
                           = AccountBalance(h)
                               - Min(GAS_COSTS[t], l) * (baseGasPrice + f)
                      /\ gasUsage' = gasUsage
                      /\ opRuns' = opRuns + 1
                      /\ result'.thrown
                      /\ result'.error = "operation failed"]_vars

C11_Witness ==
    /\ result.op = "executeTransaction"
    /\ result.thrown
    /\ result.error = "operation failed"
    /\ gasUsage = <<>>
    /\ \E i \in 1..Len(accounts) :
          /\ parseFloat(accounts[i].tripcoin) > 0
          /\ parseFloat(accounts[i].tripcoin) < CreditAmount

(***************************************************************************)
(* The Gas Meter with storage calls that can fail.  A failed write changes *)
(* nothing and raises the storage layer's error.                           *)
(***************************************************************************)
\* the storage writes executeTransaction makes after the precheck
StorageCalls == {"successDebit", "gasUsageCreate", "failureDebit"}

\* the catch block of executeTransaction: rows are the account rows reached
\* so far, error is what the try block raised
ExecuteTransactionCatch(rows, error, accountHash, gasCost, gasLimit, gasPriorityFee, failing) ==
    IF "failureDebit" \in failing
    THEN /\ accounts' = rows
         /\ result' = Threw("executeTransaction", "Storage write failed")
    ELSE /\ accounts' = WithBalanceUpdate(rows, accountHash,
                             -FailureCharge(gasCost, gasLimit, gasPriorityFee))
         /\ result' = Threw("executeTransaction", error)

\* GasService.executeTransaction; failing is the set of storage writes that
\* fail when the call reaches them
ExecuteTransactionWithFaults(accountHash, operationType, gasLimit, gasPriorityFee, operationSucceeds, failing) ==
    LET gasCost == calculateGasCost(operationType, gasLimit, gasPriorityFee)
        debited == WithBalanceUpdate(accounts, accountHash, -SuccessCharge(gasCost))
    IN  /\ opRuns < MaxCalls
        /\ IF ~HasAccountHash(accountHash)
           THEN /\ result' = Threw("executeTransaction", "User not found")
                /\ UNCHANGED <<accounts, gasUsage, opRuns>>
           ELSE IF AccountBalance(accountHash) < gasCost.maxCost
           THEN /\ result' = Threw("executeTransaction",
                                   "Insufficient TripCoin balance for gas")
                /\ UNCHANGED <<accounts, gasUsage, opRuns>>
           ELSE /\ opRuns' = opRuns + 1
                /\ IF ~operationSucceeds
                   THEN /\ ExecuteTransactionCatch(accounts, "operation failed",
                               accountHash, gasCost, gasLimit, gasPriorityFee, failing)
                        /\ UNCHANGED gasUsage
                   ELSE IF "successDebit" \in failing
                   THEN /\ ExecuteTransactionCatch(accounts, "Storage write failed",
                               accountHash, gasCost, gasLimit, gasPriorityFee, failing)
                        /\ UNCHANGED gasUsage
                   ELSE IF "gasUsageCreate" \in failing
                   THEN /\ ExecuteTransactionCatch(debited, "Storage write failed",
                               accountHash, gasCost, gasLimit, gasPriorityFee, failing)
                        /\ UNCHANGED gasUsage
                   ELSE /\ accounts' = debited
                        /\ gasUsage' = Append(gasUsage,
                                              [accountHash |-> accountHash,
                                               gasUnits |-> gasCost.gasUnits,
                                               baseFee |-> gasCost.baseGasCost,
                                               priorityFee |-> gasCost.priorityFee])
                        /\ result' = Returned("executeTransaction", TRUE, "")
        /\ UNCHANGED <<consensusAlgorithm, chainVars, users, baseGasPrice, adjustments, metering, tokens>>

NextGasFaults ==
    \/ \E u \in UserIds, ok \in BOOLEAN : CreateAccount(u, ok)
    \/ \E h \in AccountHashes : UpdateBalance(h, CreditAmount)
    \/ \E h \in AccountHashes : UpdateBalance(h, -CreditAmount)
    \/ \E h \in AccountHashes, t \in OperationInputs, l \in GasLimits,
          f \in PriorityFees, ok \in BOOLEAN, failing \in SUBSET StorageCalls :
          ExecuteTransactionWithFaults(h, t, l, f, ok, failing)
    \/ AdjustBaseGasPrice

SpecGasFaults == InitGas /\ [][NextGasFaults]_vars

\* C12: every executeTransaction call that passes the precheck debits the
\* balance exactly once, by the success charge or by the failure charge,
\* whichever of the operation, the success-path debit or the gas usage write
\* fails.
C12_ExactlyOnceCharging ==
    [][result'.op = "executeTransaction" =>
          \A h \in AccountHashes : HasAccountHash(h) =>
            \A l \in GasLimits, f \in PriorityFees :
              AccountBalance(h) >= l * (baseGasPrice + f) =>
                \A t \in OperationInputs, ok \in BOOLEAN,
                   failing \in SUBSET {"successDebit", "gasUsageCreate"} :
                  ExecuteTransactionWithFaults(h, t, l, f, ok, failing) =>
                      \/ parseFloat(accounts'[AccountIndex(h)].tripcoin)
                           = AccountBalance(h) - GAS_COSTS[t] * baseGasPrice
                      \/ parseFloat(accounts'[AccountIndex(h)].tripcoin)
                           = AccountBalance(h)
                               - Min(GAS_COSTS[t], l) * (baseGasPrice + f)]_vars

\* C13: when the operation fails and the debit of the failure path fails
\* too, the caller of executeTransaction still receives the operation's error.
C13_OperationErrorNotMasked ==
    [][result'.op = "executeTransaction" =>
          \A h \in AccountHashes : HasAccountHash(h) =>
            \A l \in GasLimits, f \in PriorityFees :
              AccountBalance(h) >= l * (baseGasPrice + f) =>
                \A t \in OperationInputs, failing \in SUBSET StorageCalls :
                  (/\ "failureDebit" \in failing
                   /\ ExecuteTransactionWithFaults(h, t, l, f, FALSE, failing)) =>
                      /\ result'.thrown
                      /\ result'.error = "operation failed"]_vars

\* C14: no balance is ever negative: in every reachable state every stored
\* account balance and every in-memory user balance is at least zero.
C14_BalancesNeverNegative ==
    /\ \A i \in 1..Len(accounts) : parseFloat(accounts[i].tripcoin) >= 0
    /\ \A i \in 1..Len(users) : getBalance(users[i]) >= 0

(***************************************************************************)
(* createBlock split at its await.  The part up to `await                  *)
(* saveBlockToPrisma(newBlock)` runs without interruption; the row is      *)
(* written and the call resumes at `this.chain.push(newBlock)` in a later  *)
(* step, so that another call can run in between.                          *)
(***************************************************************************)
\* createBlock from its first line to the await of saveBlockToPrisma
CreateBlockBegin(caller, blockData, publicKeyString, now, random) ==
    /\ booted
    /\ awaiting[caller] = <<>>
    /\ Len(chain) + Cardinality({c \in Callers : awaiting[c] # <<>>}) < MaxChain
    /\ IF ~isBlockData(blockData)
       THEN /\ result' = Returned("createBlock", FALSE, "Estructura de blockData invalida")
            /\ UNCHANGED awaiting
       ELSE IF publicKeyString = MalformedPem
       THEN /\ result' = Returned("createBlock", FALSE, "createPublicKey failed")
            /\ UNCHANGED awaiting
       ELSE IF ~\E i \in 1..Len(users) : users[i].publicKey = publicKeyString
       THEN /\ result' = Returned("createBlock", FALSE, "Invalid public key")
            /\ UNCHANGED awaiting
       ELSE LET transaction == NewTransaction(caller, blockData, publicKeyString,
                                              "Block creation", now)
                newBlock == NewBlock(Len(chain), now, <<transaction>>,
                                     getLatestBlock.hash, transaction.signature)
                outcome == MineAndValidate(newBlock, random)
            IN  IF ShouldAppend(outcome)
                THEN /\ awaiting' = [awaiting EXCEPT ![caller] = <<outcome.block>>]
                     /\ UNCHANGED result
                ELSE /\ result' = [Returned("createBlock", FALSE, outcome.error)
                                     EXCEPT !.verdict = outcome.verdict]
                     /\ UNCHANGED awaiting
    /\ UNCHANGED <<consensusAlgorithm, booted, chain, store, pendingTransactions, users, accounts>>
    /\ UNCHANGED gasVars

\* saveBlockToPrisma resolves and createBlock continues: chain.push, return
CreateBlockResume(caller) ==
    /\ awaiting[caller] # <<>>
    /\ store' = saveBlockToPrisma(store, awaiting[caller][1])
    /\ chain' = Append(chain, awaiting[caller][1])
    /\ awaiting' = [awaiting EXCEPT ![caller] = <<>>]
    /\ result' = [Returned("createBlock", TRUE, "") EXCEPT !.verdict = "Accepted"]
    /\ UNCHANGED <<consensusAlgorithm, booted, pendingTransactions, users, accounts>>
    /\ UNCHANGED gasVars

NextConcurrent ==
    \/ \E now \in Times : InitializeChain(now)
    \/ \E u \in UserIds, ok \in BOOLEAN : CreateAccount(u, ok)
    \/ /\ consensusAlgorithm = "PoS"
       /\ \E i \in UserIds : UserUpdateBalance(i, minStake)
    \/ \E c \in Callers, d \in BlockDatas, k \in PemInputs, now \in Times,
          r \in RandomDraws : CreateBlockBegin(c, d, k, now, r)
    \/ \E c \in Callers : CreateBlockResume(c)

SpecConcurrent == Init /\ [][NextConcurrent]_vars

\* C15: whatever the interleaving of concurrent createBlock calls, the chain
\* is one a serial order produces: block i carries index i and the previous
\* hash of every block after the first is the hash of the block before it.
C15_InterleavingsAreSerial ==
    \A i \in 1..Len(chain) :
        /\ chain[i].index = i - 1
        /\ i > 1 => chain[i].previousHash = chain[i - 1].hash

(***************************************************************************)
(* The Consensus Engine called directly.                                   *)
(***************************************************************************)
\* ConsensusService.mineBlock(block): value is the block as mineBlock leaves it
MineBlock(block, random) ==
    LET mined == mineBlock(block, random)
    IN  /\ result' = IF mined.thrown THEN Threw("mineBlock", mined.error)
                     ELSE [Returned("mineBlock", TRUE, "") EXCEPT !.value = mined.block]
        /\ UNCHANGED <<consensusAlgorithm, chainVars, users, accounts>>
        /\ UNCHANGED gasVars

\* ConsensusService.validateBlock(block): value is what it returns
ValidateBlock(block) ==
    /\ result' = [Returned("validateBlock", TRUE, "") EXCEPT !.value = validateBlock(block)]
    /\ UNCHANGED <<consensusAlgorithm, chainVars, users, accounts>>
    /\ UNCHANGED gasVars

\* blocks as `new Block(...)` leaves them: nonce 0, hash computed, no validator
MineBlockInputs ==
    {NewBlock(i, now, txs, p, PeerTransaction.signature) :
        i \in 0..MaxChain, now \in Times, txs \in {<<>>, <<PeerTransaction>>},
        p \in {<<0>>, <<0, 0, 1>>}}

\* blocks naming no validator, a public key or an account hash, whose hash
\* is the computed one or another one
ValidateBlockInputs ==
    LET fresh == NewBlock(1, 1, <<PeerTransaction>>, <<0>>, PeerTransaction.signature)
    IN  {[fresh EXCEPT !.validator = v, !.hash = h] :
            v \in {EmptyString} \cup PublicKeys \cup AccountHashes,
            h \in {fresh.hash, <<15, 15, 15>>}}

NextConsensus ==
    \/ \E now \in Times : InitializeChain(now)
    \/ \E u \in UserIds, ok \in BOOLEAN : CreateAccount(u, ok)
    \/ /\ consensusAlgorithm = "PoS"
       /\ \E i \in UserIds : UserUpdateBalance(i, minStake)
    \/ \E b \in MineBlockInputs, r \in RandomDraws : MineBlock(b, r)
    \/ \E b \in ValidateBlockInputs : ValidateBlock(b)

SpecConsensus == Init /\ [][NextConsensus]_vars

\* C16: under PoW, when mineBlock returns, the block's hash has at least
\* `difficulty` leading zero digits and is the hash computed for its final
\* nonce, validateBlock accepts the block, and the chain and the stored
\* blocks are as they were before the search.
C16_PoWMiningPostcondition ==
    [][(consensusAlgorithm = "PoW" /\ result'.op = "mineBlock") =>
          \A b \in MineBlockInputs, r \in RandomDraws :
            MineBlock(b, r) =>
                /\ ~result'.thrown
                /\ StartsWithZeros(result'.value.hash, difficulty)
                /\ result'.value.hash = calculateHash(result'.value)
                /\ validateBlock(result'.value)
                /\ chain' = chain
                /\ store' = store]_vars

C16_Witness ==
    /\ consensusAlgorithm = "PoW"
    /\ booted
    /\ result.op = "mineBlock"
    /\ ~result.thrown
    /\ result.value.nonce >= 2
    /\ StartsWithZeros(result.value.hash, difficulty)

\* C17: under PoS with no identity holding minStake, a createBlock call
\* whose inputs are valid reports failure with the no-validators error and
\* leaves the chain and the stored blocks unchanged.
C17_NoValidatorNoBlock ==
    [][(/\ consensusAlgorithm = "PoS"
        /\ Validators = <<>>
        /\ result'.op = "createBlock") =>
          \A k \in PublicKeys :
            (\E i \in 1..Len(users) : users[i].publicKey = k) =>
              \A d \in BlockDatas, now \in Times, p \in ProcessIds, r \in RandomDraws :
                (isBlockData(d) /\ CreateBlock(d, k, now, p, r)) =>
                    /\ ~result'.success
                    /\ ~result'.thrown
                    /\ result'.error = "No validators available"
                    /\ chain' = chain
                    /\ store' = store]_vars

C17_Witness ==
    /\ consensusAlgorithm = "PoS"
    /\ Validators = <<>>
    /\ Len(users) >= 1
    /\ Len(chain) >= 1
    /\ result.op = "createBlock"
    /\ result.error = "No validators available"
    /\ result.verdict = "Unmined"

\* C18: under PoS validateBlock returns true exactly when block.validator is
\* non-empty, the identity whose address (exported public key) is
\* block.validator holds at least minStake, and block.hash is the hash
\* computed afresh.
C18_PoSValidation ==
    [][(consensusAlgorithm = "PoS" /\ result'.op = "validateBlock") =>
          \A b \in ValidateBlockInputs :
            ValidateBlock(b) =>
                (result'.value <=>
                    /\ b.validator # EmptyString
                    /\ \E i \in 1..Len(users) :
                          /\ users[i].publicKey = b.validator
                          /\ getBalance(users[i]) >= minStake
                    /\ b.hash = calculateHash(b))]_vars

\* C19: once the chain is initialised it is never empty and its first block
\* is a genesis block (index 0, previous hash "0", no transactions), also
\* after synchronizeChain has adopted a candidate.
C19_GenesisInvariant ==
    booted =>
        /\ Len(chain) >= 1
        /\ chain[1].index = 0
        /\ chain[1].previousHash = <<0>>
        /\ chain[1].transactions = <<>>

(***************************************************************************)
(* Restarts: the process ends and a new one is constructed over the same   *)
(* storage.                                                                *)
(***************************************************************************)
\* the service is constructed again: memory is fresh, storage is kept
Restart ==
    /\ booted
    /\ booted' = FALSE
    /\ chain' = <<>>
    /\ awaiting' = [c \in Callers |-> <<>>]
    /\ pendingTransactions' = <<>>
    /\ users' = <<>>
    /\ baseGasPrice' = PriceScale
    /\ result' = Returned("constructor", TRUE, "")
    /\ metering' = [c \in Callers |-> <<>>]
    /\ tokens' = <<>>
    /\ UNCHANGED <<consensusAlgorithm, store, accounts, gasUsage, opRuns, adjustments>>

NextBoot ==
    \/ \E now \in Times : InitializeChain(now)
    \/ \E c \in CandidateChains : SynchronizeChain(c)
    \/ Restart

SpecBoot == Init /\ [][NextBoot]_vars

\* C20: after initializeChain, if storage was empty the chain is one genesis
\* block (index 0, previous hash "0", no transactions, validator "system")
\* and storage holds exactly that block; if storage held blocks the chain is
\* those blocks in ascending index order with their stored hash, nonce and
\* validator, and storage is as it was.
C20_Bootstrap ==
    [][\A now \in Times :
          InitializeChain(now) =>
              IF store = <<>>
              THEN /\ Len(chain') = 1
                   /\ chain'[1].index = 0
                   /\ chain'[1].previousHash = <<0>>
                   /\ chain'[1].transactions = <<>>
                   /\ chain'[1].validator = SystemAddress
                   /\ Len(store') = 1
                   /\ store'[1].index = 0
                   /\ store'[1].hash = chain'[1].hash
                   /\ store'[1].previousHash = <<0>>
                   /\ store'[1].transactions = <<>>
                   /\ store'[1].validator = SystemAddress
              ELSE /\ store' = store
                   /\ Len(chain') = Len(store)
                   /\ \A i \in 1..(Len(chain') - 1) : chain'[i].index <= chain'[i + 1].index
                   /\ \E f \in [1..Len(store) -> 1..Len(store)] :
                         /\ \A i, j \in 1..Len(store) : f[i] = f[j] => i = j
                         /\ \A i \in 1..Len(store) :
                               /\ chain'[i].index = store[f[i]].index
                               /\ chain'[i].previousHash = store[f[i]].previousHash
                               /\ chain'[i].hash = store[f[i]].hash
                               /\ chain'[i].nonce = store[f[i]].nonce
                               /\ chain'[i].validator = store[f[i]].validator]_vars

C20_Witness ==
    /\ booted
    /\ result.op = "initializeChain"
    /\ Len(store) >= 2
    /\ Len(chain) = Len(store)
    /\ \E i \in 1..Len(chain) : chain[i].nonce > 0

(***************************************************************************)
(* Pending transactions (the in-memory Chain Manager of part_023).         *)
(***************************************************************************)
\* Block.mineBlock(difficulty): the search for a hash with leading zeros
RECURSIVE Block_mineBlock(_, _)
Block_mineBlock(block, zeros) ==
    IF StartsWithZeros(block.hash, zeros) THEN block
    ELSE LET next == [block EXCEPT !.nonce = @ + 1]
         IN  Block_mineBlock([next EXCEPT !.hash = calculateHash(next)], zeros)

\* variant: only the oldest pending transaction is taken
CopyPending_FirstOnly(txs) == <<JsonParse(JsonStringify(txs[1]))>>

\* JSON.parse(JSON.stringify(this.pendingTransactions))
CopyPending(txs) == [i \in 1..Len(txs) |-> JsonParse(JsonStringify(txs[i]))]

\* ChainService.createProcess(transaction, user); i is the user's position
CreateProcess(transaction, i) ==
    /\ booted
    /\ i \in 1..Len(users)
    /\ Len(pendingTransactions) < MaxPending
    /\ LET transactionCopy == JsonParse(JsonStringify(transaction))
           signature == signData(users[i].publicKey[2], JsonStringify(transaction.data))
           encryptedData == encryptData(transactionCopy.data, users[i].publicKey)
       IN  pendingTransactions' =
               Append(pendingTransactions,
                      [transactionCopy EXCEPT !.data = encryptedData,
                                              !.signature = signature])
    /\ result' = Returned("createProcess", TRUE, "")
    /\ UNCHANGED <<consensusAlgorithm, booted, chain, store, awaiting, users, accounts>>
    /\ UNCHANGED gasVars

\* ChainService.minePendingProcesses(user)
MinePendingProcesses(now) ==
    /\ booted
    /\ Len(chain) < MaxChain
    /\ IF Len(pendingTransactions) = 0
       THEN /\ result' = Threw("minePendingProcesses",
                               "No hay transacciones pendientes para minar")
            /\ UNCHANGED <<chain, pendingTransactions>>
       ELSE LET transactions == CopyPending(pendingTransactions)
                newBlock == NewBlock(Len(chain), now, transactions,
                                     getLatestBlock.hash, transactions[1].signature)
            IN  /\ chain' = Append(chain, Block_mineBlock(newBlock, difficulty))
                /\ pendingTransactions' = <<>>
                /\ result' = Returned("minePendingProcesses", TRUE, "")
    /\ UNCHANGED <<consensusAlgorithm, booted, store, awaiting, users, accounts>>
    /\ UNCHANGED gasVars

\* the transactions callers hand to createProcess: the process id is fresh
ProcessInputs ==
    {[processId |-> Len(pendingTransactions) + 1, description |-> "Process",
      data |-> d, timestamp |-> now, signature |-> EmptySignature] :
        d \in BlockDatas, now \in Times}

\* this Chain Manager mines by difficulty alone
InitPending ==
    /\ Init
    /\ consensusAlgorithm = "PoW"

NextPending ==
    \/ \E now \in Times : InitializeChain(now)
    \/ \E u \in UserIds, ok \in BOOLEAN : CreateAccount(u, ok)
    \/ \E t \in ProcessInputs : CreateProcess(t, 1)
    \/ \E now \in Times : MinePendingProcesses(now)

SpecPending == InitPending /\ [][NextPending]_vars

\* C21: minePendingProcesses appends one block that holds every pending
\* transaction in the order they were added and empties pendingTransactions;
\* with nothing pending it throws and leaves the chain unchanged.
C21_PendingAllMinedNext ==
    [][\A now \in Times :
          MinePendingProcesses(now) =>
              IF pendingTransactions = <<>>
              THEN /\ result'.thrown
                   /\ chain' = chain
              ELSE /\ ~result'.thrown
                   /\ Len(chain') = Len(chain) + 1
                   /\ SubSeq(chain', 1, Len(chain)) = chain
                   /\ chain'[Len(chain')].transactions = pendingTransactions
                   /\ pendingTransactions' = <<>>]_vars

C21_Witness ==
    /\ result.op = "minePendingProcesses"
    /\ ~result.thrown
    /\ pendingTransactions = <<>>
    /\ Len(chain) >= 2
    /\ Len(chain[Len(chain)].transactions) >= 2
    /\ chain[Len(chain)].transactions[1].processId = 1
    /\ chain[Len(chain)].transactions[2].processId = 2
    /\ chain[Len(chain)].transactions[1].data # chain[Len(chain)].transactions[2].data

(***************************************************************************)
(* The Crypto Envelope and the queries of the Chain Manager.  The result   *)
(* of these calls also records the arguments of the call.                  *)
(***************************************************************************)
\* a structure, a string that is not JSON text, and the string '10'
Plaintexts ==
    {GoodBlockData, JsString(<<"text", 1>>), JsString(JsonStringify(JsNumber(10)))}

\* CryptoUtils.decryptData(CryptoUtils.encryptData(data, publicKey), key)
DecryptEncrypted(data, publicKey, key) ==
    LET opened == decryptData(encryptData(data, publicKey), key)
    IN  /\ result' = ("args" :> <<data, publicKey, key>>) @@
                     [op |-> "decryptData", success |-> ~opened.thrown,
                      thrown |-> opened.thrown, error |-> opened.error,
                      value |-> opened.value, verdict |-> "none"]
        /\ UNCHANGED <<consensusAlgorithm, chainVars, users, accounts>>
        /\ UNCHANGED gasVars

\* ChainService.getDecryptedBlockData(blockIndex, key)
GetDecryptedBlockData(blockIndex, key) ==
    /\ booted
    /\ IF blockIndex < 0 \/ blockIndex >= Len(chain)
       THEN result' = ("args" :> <<blockIndex, key>>) @@
                      Returned("getDecryptedBlockData", FALSE, "Block index out of bounds")
       ELSE LET block == chain[blockIndex + 1]
                opened == [i \in 1..Len(block.transactions) |->
                              decryptData(block.transactions[i].data, key)]
            IN  IF \E i \in 1..Len(opened) : opened[i].thrown
                THEN result' = ("args" :> <<blockIndex, key>>) @@
                               Returned("getDecryptedBlockData", FALSE,
                                        "Fallo al descifrar los datos")
                ELSE result' = ("args" :> <<blockIndex, key>>) @@
                               [Returned("getDecryptedBlockData", TRUE, "")
                                  EXCEPT !.value = [i \in 1..Len(opened) |-> opened[i].value]]
    /\ UNCHANGED <<consensusAlgorithm, chainVars, users, accounts>>
    /\ UNCHANGED gasVars

\* the string a signature is: the hex encoding of the signature bytes
SignatureString(signature) == <<"hex", signature>>

\* a === b for strings: of the same form and with the same content
SameString(a, b) == a[1] = b[1] /\ a[2] = b[2]

\* ChainService.getAccountBlocks(publicKey)
GetAccountBlocks(publicKey) ==
    /\ booted
    /\ result' = ("args" :> <<publicKey>>) @@
                 [Returned("getAccountBlocks", TRUE, "") EXCEPT !.value =
                     SelectSeq(chain, LAMBDA block :
                         \E i \in 1..Len(block.transactions) :
                             SameString(SignatureString(block.transactions[i].signature),
                                        publicKey))]
    /\ UNCHANGED <<consensusAlgorithm, chainVars, users, accounts>>
    /\ UNCHANGED gasVars

\* a value that is not a string, handed where a message is expected
Undefined == <<"undefined", 0>>

\* the messages handed to verifyData
MessageInputs == {JsonStringify(GoodBlockData), JsonStringify(BadBlockData), Undefined}

\* the signature strings handed to verifyData: what signData returned, the
\* same followed by characters that are not hex digits, and a string that
\* has no hex digit at all
SignatureInputs ==
    {SignatureString(signData(k, m)) : k \in KeyPairs, m \in MessageInputs \ {Undefined}}
    \cup {<<"hex", signData(k, m), "zz">> : k \in KeyPairs, m \in MessageInputs \ {Undefined}}
    \cup {<<"text", 0>>}

\* Buffer.from(signature, 'hex'): decoding stops at the first character that
\* is not a hex digit; what was decoded so far is the buffer
BufferFromHex(text) ==
    IF text[1] = "hex" THEN text[2]
    ELSE [signer |-> EmptyString, message |-> EmptyString]

\* User.verifyData(data, signature) of the user holding key pair k: any
\* exception is caught and answered with false
verifyData(k, data, signature) ==
    IF data = Undefined THEN FALSE
    ELSE LET bytes == BufferFromHex(signature)
         IN  /\ bytes.signer = PublicKeyPem(k)
             /\ bytes.message = data

\* User.verifyData called directly
VerifyData(k, data, signature) ==
    /\ result' = ("args" :> <<k, data, signature>>) @@
                 [Returned("verifyData", TRUE, "") EXCEPT !.value = verifyData(k, data, signature)]
    /\ UNCHANGED <<consensusAlgorithm, chainVars, users, accounts>>
    /\ UNCHANGED gasVars

\* the block indices callers ask for
BlockIndexInputs == (0 - 1)..MaxChain

\* User.validateKeyPairWithEncryption: 'test' survives the envelope round trip
validateKeyPairWithEncryption(u) ==
    LET testData == JsString(<<"text", 2>>)
        opened == decryptData(encryptData(testData, PublicKeyPem(u)), PrivateKey(u))
    IN  ~opened.thrown /\ opened.value = testData

\* the accountId column saveBlockToPrisma writes
RowAccountId(row) == SystemAddress

\* typeof decryptedData === 'string' ? decryptedData : JSON.stringify(decryptedData)
DataToVerify(decryptedData) ==
    IF IsJsString(decryptedData) THEN decryptedData.v ELSE JsonStringify(decryptedData)

\* blocksByAccount: a transaction whose payload opens with the user's
\* private key and whose signature verifies over the opened payload
TransactionVerifies(u, tx) ==
    LET opened == decryptData(tx.data, PrivateKey(u))
    IN  /\ ~opened.thrown
        /\ verifyData(u, DataToVerify(opened.value), SignatureString(tx.signature))

\* AccountService.blocksByAccount(accountHash): value is the blocks it lists
BlocksByAccount(accountHash) ==
    /\ result' = ("args" :> <<accountHash>>) @@
         (IF ~HasAccountHash(accountHash)
          THEN Returned("blocksByAccount", FALSE, "User not found")
          ELSE IF ~validateKeyPairWithEncryption(accountHash[2])
          THEN Returned("blocksByAccount", FALSE, "Invalid user keys")
          ELSE [Returned("blocksByAccount", TRUE, "") EXCEPT !.value =
                  SelectSeq(SelectSeq(store, LAMBDA row : RowAccountId(row) = accountHash),
                            LAMBDA row : \E i \in 1..Len(row.transactions) :
                                            TransactionVerifies(accountHash[2],
                                                                row.transactions[i]))])
    /\ UNCHANGED <<consensusAlgorithm, chainVars, users, accounts>>
    /\ UNCHANGED gasVars

NextCrypto ==
    \/ \E now \in Times : InitializeChain(now)
    \/ \E u \in UserIds, ok \in BOOLEAN : CreateAccount(u, ok)
    \/ \E d \in BlockDatas, k \in PemInputs, now \in Times, p \in ProcessIds,
          r \in RandomDraws : CreateBlock(d, k, now, p, r)
    \/ \E m \in Plaintexts, k \in KeyPairs, key \in KeyObjects :
          DecryptEncrypted(m, PublicKeyPem(k), key)
    \/ \E b \in BlockIndexInputs, key \in KeyObjects : GetDecryptedBlockData(b, key)
    \/ \E k \in PublicKeys : GetAccountBlocks(k)
    \/ \E k \in KeyPairs, m \in MessageInputs, sig \in SignatureInputs : VerifyData(k, m, sig)
    \/ \E u \in KeyPairs : BlocksByAccount(AccountHash(u))

SpecCrypto == Init /\ [][NextCrypto]_vars

\* C22: for every plaintext and every key pair, decrypting with the private
\* key what was encrypted for the public key returns the plaintext itself: a
\* string as a string, a structure as a structure.
C22_EnvelopeRoundTrip ==
    [][result'.op = "decryptData" =>
          \A m \in Plaintexts, k \in KeyPairs :
            DecryptEncrypted(m, PublicKeyPem(k), PrivateKey(k)) =>
                /\ ~result'.thrown
                /\ result'.value = m]_vars

\* C23: decrypting an envelope with any key other than the private key of
\* the pair it was made for throws and returns no data, and
\* getDecryptedBlockData on a block holding a transaction made for one
\* identity, called with another key, reports failure and returns no data.
C23_WrongKeyRejected ==
    [][/\ result'.op = "decryptData" =>
            \A m \in Plaintexts, k \in KeyPairs, key \in KeyObjects :
              (key # PrivateKey(k) /\ DecryptEncrypted(m, PublicKeyPem(k), key)) =>
                  /\ result'.thrown
                  /\ result'.value = EmptyString
       /\ result'.op = "getDecryptedBlockData" =>
            \A b \in 0..(Len(chain) - 1), key \in KeyObjects :
              (/\ \E i \in 1..Len(chain[b + 1].transactions) :
                      key # PrivateKey(chain[b + 1].transactions[i].data.recipient[2])
               /\ GetDecryptedBlockData(b, key)) =>
                  /\ ~result'.success
                  /\ ~result'.thrown
                  /\ result'.value = FALSE]_vars

C23_Witness ==
    /\ result.op = "getDecryptedBlockData"
    /\ ~result.success
    /\ result.args[1] = 1
    /\ result.args[2] = PrivateKey(2)
    /\ Len(chain) >= 2
    /\ chain[2].transactions[1].data.recipient = PublicKeyPem(1)
    /\ result.error = "Fallo al descifrar los datos"

\* C24: getDecryptedBlockData returns a failure result without throwing for
\* an index outside the chain; for an index in range and the private key of
\* the identity the block's transactions were made for it returns the
\* decrypted value of each transaction in transaction order; the chain is
\* unchanged in every case.
C24_DecryptedBlockData ==
    [][result'.op = "getDecryptedBlockData" =>
          \A b \in BlockIndexInputs, key \in KeyObjects :
            GetDecryptedBlockData(b, key) =>
                /\ chain' = chain
                /\ ~result'.thrown
                /\ (b < 0 \/ b >= Len(chain)) => ~result'.success
                /\ (/\ b >= 0 /\ b < Len(chain)
                    /\ \A i \in 1..Len(chain[b + 1].transactions) :
                          key = PrivateKey(chain[b + 1].transactions[i].data.recipient[2])) =>
                       /\ result'.success
                       /\ Len(result'.value) = Len(chain[b + 1].transactions)
                       /\ \A i \in 1..Len(chain[b + 1].transactions) :
                             result'.value[i]
                               = JsonParse(chain[b + 1].transactions[i].data.plaintext)]_vars

\* C25: getAccountBlocks(address) returns exactly the blocks of the chain
\* that hold at least one transaction created by the identity with that
\* address, in chain order.
C25_AccountBlocks ==
    [][result'.op = "getAccountBlocks" =>
          \A k \in PublicKeys :
            GetAccountBlocks(k) =>
                result'.value =
                    SelectSeq(chain, LAMBDA block :
                        \E i \in 1..Len(block.transactions) :
                            block.transactions[i].signature.signer = k)]_vars

\* C26: verifyData never throws and returns a boolean for every message,
\* signature string and key, and it returns false whenever the signature
\* string is not the one signData produces over that message with the
\* private key of the same pair.
C26_VerifyNeverThrows ==
    [][result'.op = "verifyData" =>
          \A k \in KeyPairs, m \in MessageInputs, sig \in SignatureInputs :
            VerifyData(k, m, sig) =>
                /\ ~result'.thrown
                /\ result'.value \in BOOLEAN
                /\ (m = Undefined \/ sig # SignatureString(signData(k, m)))
                      => result'.value = FALSE]_vars

(***************************************************************************)
(* One createBlock call, split at its await, next to synchronizeChain.     *)
(***************************************************************************)
NextOverlap ==
    \/ \E now \in Times : InitializeChain(now)
    \/ \E u \in UserIds, ok \in BOOLEAN : CreateAccount(u, ok)
    \/ \E d \in BlockDatas, k \in PemInputs, now \in Times, r \in RandomDraws :
          CreateBlockBegin(1, d, k, now, r)
    \/ CreateBlockResume(1)
    \/ \E c \in CandidateChains : SynchronizeChain(c)

SpecOverlap == Init /\ [][NextOverlap]_vars

\* C27: the block a createBlock call appends, also when a synchronizeChain
\* call replaced the chain while createBlock was suspended, carries the
\* hash of the block before it in the resulting chain as previousHash and
\* its position in that chain as index.
C27_NoStaleAppend ==
    [][CreateBlockResume(1) =>
          /\ Len(chain') = Len(chain) + 1
          /\ chain'[Len(chain')].index = Len(chain') - 1
          /\ chain'[Len(chain')].previousHash = chain'[Len(chain') - 1].hash]_vars

(***************************************************************************)
(* The stake-weighted draw, over directories of up to three identities     *)
(* whose in-memory balances were credited in steps of minStake.            *)
(***************************************************************************)
\* ConsensusService.selectValidator with Math.random() * totalStake = random
SelectValidator(random) ==
    /\ result' = ("args" :> <<random>>) @@
                 [Returned("selectValidator", TRUE, "") EXCEPT !.value = selectValidator(random)]
    /\ UNCHANGED <<consensusAlgorithm, chainVars, users, accounts>>
    /\ UNCHANGED gasVars

\* the identities of a directory, in the order they were created
StakeHolders == {1, 2, 3}
StakeLevels == {0, minStake, 2 * minStake}

\* the directory after n identities were created and credited
StakedUsers ==
    UNION {{[i \in 1..n |-> [accountHash |-> AccountHash(i),
                             publicKey |-> PublicKeyPem(i),
                             tripcoin |-> stake[i]]] :
              stake \in [1..n -> StakeLevels]} : n \in StakeHolders}

InitSelect ==
    /\ consensusAlgorithm = "PoS"
    /\ booted = FALSE
    /\ chain = <<>>
    /\ store = <<>>
    /\ awaiting = [c \in Callers |-> <<>>]
    /\ pendingTransactions = <<>>
    /\ users \in StakedUsers
    /\ accounts = [i \in 1..Len(users) |->
                      [accountHash |-> users[i].accountHash,
                       publicKey |-> users[i].publicKey,
                       tripcoin |-> NumberToString(0),
                       rewardPlanEnabled |-> FALSE]]
    /\ gasUsage = <<>>
    /\ baseGasPrice = PriceScale
    /\ opRuns = 0
    /\ adjustments = 0
    /\ metering = [c \in Callers |-> <<>>]
    /\ tokens = <<>>
    /\ result = Returned("constructor", TRUE, "")

NextSelect ==
    \/ \E now \in Times : InitializeChain(now)
    \/ \E r \in RandomDraws : SelectValidator(r)

SpecSelect == InitSelect /\ [][NextSelect]_vars

\* C28: for every draw r in [0, totalStake), selectValidator returns the
\* address of the first identity, in iteration order over the identities
\* holding at least minStake, whose cumulative stake is strictly greater
\* than r; the identity returned holds at least minStake, and the empty
\* address is not returned while an eligible identity exists.
C28_StakeWeightedSelection ==
    [][result'.op = "selectValidator" =>
          \A r \in RandomDraws :
            (Validators # <<>> /\ SelectValidator(r)) =>
                LET first == CHOOSE j \in 1..Len(Validators) :
                               /\ TotalStake(SubSeq(Validators, 1, j)) > r
                               /\ \A k \in 1..(j - 1) :
                                     TotalStake(SubSeq(Validators, 1, k)) <= r
                IN  /\ result'.value = Validators[first].publicKey
                    /\ result'.value # EmptyString
                    /\ \E i \in 1..Len(users) :
                          /\ users[i].publicKey = result'.value
                          /\ getBalance(users[i]) >= minStake]_vars

\* C29: under PoS, while an identity holds at least minStake, the block
\* that mineBlock produces in createBlock for a registered signer is accepted
\* by the validateBlock call that follows: the call succeeds, the block ends
\* Accepted (not Rejected) and is appended to the chain.
C29_MinedPoSBlockAccepted ==
    [][(/\ consensusAlgorithm = "PoS"
        /\ Validators # <<>>
        /\ result'.op = "createBlock"
        /\ result'.verdict \in {"Accepted", "Rejected"}) =>
          /\ result'.verdict = "Accepted"
          /\ result'.success
          /\ Len(chain') = Len(chain) + 1]_vars

\* one tripcoin in the units the stored balances are counted in
UnitsPerCoin == 1000000 * PriceScale

\* C30: in every reachable state and for every identity, the balance that
\* selectValidator and validatePoSBlock read (users[..].getBalance) is the
\* balance AccountService.getBalance returns for that identity, so that
\* holding at least minStake means the same on both sides.
C30_StakeIsMaintainedBalance ==
    \A i \in 1..Len(users) :
        HasAccountHash(users[i].accountHash) =>
            LET stored == AccountBalance(users[i].accountHash)
            IN  /\ stored % UnitsPerCoin = 0
                /\ stored \div UnitsPerCoin = getBalance(users[i])
                /\ (getBalance(users[i]) >= minStake) <=>
                      (stored \div UnitsPerCoin >= minStake)

(***************************************************************************)
(* The congestion adjustment over stored blocks of different loads.        *)
(***************************************************************************)
\* transactions per block just below and just above targetGasPerBlock
LightLoad == targetGasPerBlock \div GAS_COSTS.TRANSFER
HeavyLoad == LightLoad + 1

\* how many blocks the storage can hold when the service starts
StoredBlockCounts == 0..(RecentWindow + 1)

\* a stored block carrying load transactions, saved at instant index; the
\* hash column holds the digest its producer computed, which
\* adjustBaseGasPrice does not read
LoadedRow(index, load) ==
    [index |-> index, timestamp |-> NewDate(index),
     previousHash |-> <<0>>, hash |-> <<0, 0, index % HexBase>>,
     nonce |-> 0, signature |-> PeerTransaction.signature,
     validator |-> SystemAddress,
     transactions |-> [i \in 1..load |->
                          TxRow(NewTransaction(index * (HeavyLoad + 1) + i, GoodBlockData,
                                               PublicKeyPem(1), "Block creation", index))]]

\* the stored sequences: n blocks of which heavy are above the target, the
\* heavy ones being the oldest or the most recent
StoredLoads(counts) ==
    {[i \in 1..n |->
        LoadedRow(i - 1, IF (IF oldest THEN i <= heavy ELSE i > n - heavy)
                         THEN HeavyLoad ELSE LightLoad)] :
       n \in counts, heavy \in counts, oldest \in BOOLEAN}

InitPrice ==
    /\ consensusAlgorithm = "PoS"
    /\ booted = FALSE
    /\ chain = <<>>
    /\ store \in StoredLoads(StoredBlockCounts)
    /\ awaiting = [c \in Callers |-> <<>>]
    /\ pendingTransactions = <<>>
    /\ users = <<>>
    /\ accounts = <<>>
    /\ gasUsage = <<>>
    /\ baseGasPrice = PriceScale
    /\ opRuns = 0
    /\ adjustments = 0
    /\ metering = [c \in Callers |-> <<>>]
    /\ tokens = <<>>
    /\ result = Returned("constructor", TRUE, "")

NextPrice == AdjustBaseGasPrice

SpecPrice == InitPrice /\ [][NextPrice]_vars

C32_NeverOverdraws ==
    [][result'.op = "executeTransaction" =>
          \A h \in AccountHashes, t \in OperationInputs, l \in GasLimits, f \in PriorityFees :
            \A ok \in BOOLEAN :
              (/\ HasAccountHash(h)
               /\ AccountBalance(h) >= 0
               /\ ExecuteTransaction(h, t, l, f, ok)) =>
                  LET debited == AccountBalance(h) - parseFloat(accounts'[AccountIndex(h)].tripcoin)
                  IN  /\ debited <= calculateGasCost(t, l, f).maxCost
                      /\ parseFloat(accounts'[AccountIndex(h)].tripcoin) >= 0]_vars

(***************************************************************************)
(* executeTransaction split at its awaits.  A call runs from one await to  *)
(* the next without interruption: the precheck (getBalance), the metered   *)
(* operation, then inside AccountService.updateBalance the read            *)
(* (account.findUnique) and the write (balance.update), and last the gas   *)
(* usage row.  Other calls can run between two of these steps.             *)
(***************************************************************************)
MeteredCallers == {1, 2}

\* calls that passed the precheck, finished or not
MeteredCalls ==
    opRuns + Cardinality({c \in MeteredCallers :
                            metering[c] # <<>> /\ metering[c][1].pc = "callback"})

\* executeTransaction up to the end of its precheck (lines 160-163)
ExecuteTransactionBegin(caller, accountHash, operationType, gasLimit, gasPriorityFee, operationSucceeds) ==
    LET gasCost == calculateGasCost(operationType, gasLimit, gasPriorityFee)
    IN  /\ metering[caller] = <<>>
        /\ MeteredCalls < MaxCalls + 1
        /\ IF ~HasAccountHash(accountHash)
           THEN /\ result' = Threw("executeTransaction", "User not found")
                /\ UNCHANGED metering
           ELSE IF AccountBalance(accountHash) < gasCost.maxCost
           THEN /\ result' = Threw("executeTransaction",
                                   "Insufficient TripCoin balance for gas")
                /\ UNCHANGED metering
           ELSE /\ metering' = [metering EXCEPT ![caller] =
                                  <<[pc |-> "callback", accountHash |-> accountHash,
                                     gasCost |-> gasCost, gasLimit |-> gasLimit,
                                     gasPriorityFee |-> gasPriorityFee,
                                     operationSucceeds |-> operationSucceeds,
                                     amount |-> 0, seen |-> 0, error |-> ""]>>]
                /\ UNCHANGED result
        /\ UNCHANGED <<consensusAlgorithm, chainVars, users, accounts>>
        /\ UNCHANGED <<gasUsage, baseGasPrice, opRuns, adjustments, tokens>>

\* the metered operation settles: the try block goes on to the success
\* debit, or the catch block computes the failure debit (lines 166-185)
ExecuteTransactionCallback(caller) ==
    /\ metering[caller] # <<>>
    /\ metering[caller][1].pc = "callback"
    /\ LET call == metering[caller][1]
       IN  metering' = [metering EXCEPT ![caller] =
              <<[call EXCEPT
                   !.pc = "findUnique",
                   !.amount = IF call.operationSucceeds
                              THEN -SuccessCharge(call.gasCost)
                              ELSE -FailureCharge(call.gasCost, call.gasLimit,
                                                  call.gasPriorityFee),
                   !.error = IF call.operationSucceeds THEN "" ELSE "operation failed"]>>]
    /\ opRuns' = opRuns + 1
    /\ UNCHANGED <<consensusAlgorithm, chainVars, users, accounts, result>>
    /\ UNCHANGED <<gasUsage, baseGasPrice, adjustments, tokens>>

\* AccountService.updateBalance: account.findUnique reads the balance row
UpdateBalanceFindUnique(caller) ==
    /\ metering[caller] # <<>>
    /\ metering[caller][1].pc = "findUnique"
    /\ LET call == metering[caller][1]
       IN  metering' = [metering EXCEPT ![caller] =
              <<[call EXCEPT !.pc = "update",
                             !.seen = AccountBalance(call.accountHash)]>>]
    /\ UNCHANGED <<consensusAlgorithm, chainVars, users, accounts, result>>
    /\ UNCHANGED <<gasUsage, baseGasPrice, opRuns, adjustments, tokens>>

\* newAmount = parseFloat(balance.amount) + amount, from the row read before
BalanceAfterUpdate(call) == call.seen + call.amount

\* AccountService.updateBalance: balance.update writes newAmount; on the
\* failure path executeTransaction then rethrows the operation's error
UpdateBalanceWrite(caller) ==
    /\ metering[caller] # <<>>
    /\ metering[caller][1].pc = "update"
    /\ LET call == metering[caller][1]
       IN  /\ accounts' = [accounts EXCEPT ![AccountIndex(call.accountHash)].tripcoin =
                              NumberToString(BalanceAfterUpdate(call))]
           /\ IF call.error = ""
              THEN /\ metering' = [metering EXCEPT ![caller] =
                                     <<[call EXCEPT !.pc = "gasUsage"]>>]
                   /\ UNCHANGED result
              ELSE /\ metering' = [metering EXCEPT ![caller] = <<>>]
                   /\ result' = Threw("executeTransaction", call.error)
    /\ UNCHANGED <<consensusAlgorithm, chainVars, users>>
    /\ UNCHANGED <<gasUsage, baseGasPrice, opRuns, adjustments, tokens>>

\* prisma.gasUsage.create, then return true (lines 171-180)
GasUsageCreate(caller) ==
    /\ metering[caller] # <<>>
    /\ metering[caller][1].pc = "gasUsage"
    /\ LET call == metering[caller][1]
       IN  gasUsage' = Append(gasUsage,
                              [accountHash |-> call.accountHash,
                               gasUnits |-> call.gasCost.gasUnits,
                               baseFee |-> call.gasCost.baseGasCost,
                               priorityFee |-> call.gasCost.priorityFee])
    /\ metering' = [metering EXCEPT ![caller] = <<>>]
    /\ result' = Returned("executeTransaction", TRUE, "")
    /\ UNCHANGED <<consensusAlgorithm, chainVars, users, accounts>>
    /\ UNCHANGED <<baseGasPrice, opRuns, adjustments, tokens>>

\* gas limits that cover the gas units of a TRANSFER
CoveringGasLimits == {l \in GasLimits : l >= GAS_COSTS.TRANSFER}

NextMetering ==
    \/ \E u \in UserIds, ok \in BOOLEAN : CreateAccount(u, ok)
    \/ \E h \in AccountHashes : UpdateBalance(h, CreditAmount)
    \/ \E c \in MeteredCallers, h \in AccountHashes, l \in CoveringGasLimits,
          f \in PriorityFees, ok \in BOOLEAN :
          ExecuteTransactionBegin(c, h, "TRANSFER", l, f, ok)
    \/ \E c \in MeteredCallers : ExecuteTransactionCallback(c)
    \/ \E c \in MeteredCallers : UpdateBalanceFindUnique(c)
    \/ \E c \in MeteredCallers : UpdateBalanceWrite(c)
    \/ \E c \in MeteredCallers : GasUsageCreate(c)

SpecMetering == InitGas /\ [][NextMetering]_vars

\* C33: for every interleaving of two executeTransaction calls for the same
\* identity at their awaits, each call's debit lowers the stored balance by
\* that call's charge, so that the final balance is the initial one minus
\* the sum of the charges, and the balance is never negative when each
\* call's precheck passed.
C33_ConcurrentCharges ==
    [][\A c \in MeteredCallers :
          UpdateBalanceWrite(c) =>
              LET call == metering[c][1]
                  after == parseFloat(accounts'[AccountIndex(call.accountHash)].tripcoin)
              IN  /\ after = AccountBalance(call.accountHash) + call.amount
                  /\ after >= 0]_vars

(***************************************************************************)
(* The Chain Manager with block writes that can fail.                      *)
(***************************************************************************)
\* createBlock when prisma.block.create rejects: the catch block returns the
\* failure and chain.push is not reached
CreateBlockWithFaults(blockData, publicKeyString, now, processId, random, writeFails) ==
    LET transaction == NewTransaction(processId, blockData, publicKeyString,
                                      "Block creation", now)
        newBlock == NewBlock(Len(chain), now, <<transaction>>,
                             getLatestBlock.hash, transaction.signature)
        reachesSave == /\ isBlockData(blockData)
                       /\ publicKeyString # MalformedPem
                       /\ \E i \in 1..Len(users) : users[i].publicKey = publicKeyString
                       /\ ShouldAppend(MineAndValidate(newBlock, random))
    IN  IF writeFails /\ booted /\ Len(chain) < MaxChain /\ reachesSave
        THEN /\ result' = [Returned("createBlock", FALSE, "Storage write failed")
                             EXCEPT !.verdict = "Accepted"]
             /\ UNCHANGED <<consensusAlgorithm, chainVars, users, accounts>>
             /\ UNCHANGED gasVars
        ELSE CreateBlock(blockData, publicKeyString, now, processId, random)

\* synchronizeChain when the save of block number saved + 1 rejects after
\* deleteMany: the catch block returns the failure, this.chain is not assigned
SynchronizeChainWithFaults(receivedChain, saved) ==
    IF booted /\ IsLonger(receivedChain, chain) /\ validateChain(receivedChain)
       /\ saved < Len(receivedChain)
    THEN /\ store' = SaveAll(<<>>, SubSeq(receivedChain, 1, saved))
         /\ result' = Returned("synchronizeChain", FALSE, "Storage write failed")
         /\ UNCHANGED <<consensusAlgorithm, booted, chain, awaiting, pendingTransactions>>
         /\ UNCHANGED <<users, accounts>>
         /\ UNCHANGED gasVars
    ELSE SynchronizeChain(receivedChain)

NextStoreFaults ==
    \/ \E now \in Times : InitializeChain(now)
    \/ \E u \in UserIds, ok \in BOOLEAN : CreateAccount(u, ok)
    \/ \E d \in BlockDatas, k \in PemInputs, now \in Times, p \in ProcessIds,
          r \in RandomDraws, writeFails \in BOOLEAN :
          CreateBlockWithFaults(d, k, now, p, r, writeFails)
    \/ \E c \in CandidateChains, saved \in 0..MaxChain :
          SynchronizeChainWithFaults(c, saved)

SpecStoreFaults == Init /\ [][NextStoreFaults]_vars

\* C34: between Chain Manager operations the stored blocks, ordered by
\* index, are as many as the blocks of the in-memory chain and carry the
\* same hashes, also after a block write failed in createBlock or in the
\* middle of an accepted synchronizeChain.
C34_MemoryAndStorageAgree ==
    booted =>
        /\ Len(store) = Len(chain)
        /\ \A i \in 1..Len(chain) :
              i <= Len(store) => OrderByIndex(store)[i].hash = chain[i].hash

(***************************************************************************)
(* Restarts of a service whose chain was built by createBlock.             *)
(***************************************************************************)
\* the values crypto.randomUUID() takes in the calls of a run
FreshProcessIds == 1..(MaxChain + 1)

NextReload ==
    \/ \E now \in Times : InitializeChain(now)
    \/ /\ Len(accounts) < MaxUsers   \* accounts are created before the first restart
       /\ \E u \in UserIds, ok \in BOOLEAN : CreateAccount(u, ok)
    \/ /\ consensusAlgorithm = "PoS"
       /\ \E i \in UserIds : UserUpdateBalance(i, minStake)
    \/ \E d \in BlockDatas, k \in PemInputs, now \in Times, p \in FreshProcessIds,
          r \in RandomDraws : CreateBlock(d, k, now, p, r)
    \/ Restart

SpecReload == Init /\ [][NextReload]_vars

\* C35: when the service restarts, the chain that initializeChain rebuilds
\* from the stored rows equals the chain createBlock had built before the
\* restart, field by field (index, timestamp, transactions, previousHash,
\* hash, nonce, signature, validator).
C35_PersistReloadRoundTrip ==
    [][Restart =>
          LET rows == OrderByIndex(store)
              rebuilt == [i \in 1..Len(rows) |-> BlockOfRow(rows[i])]
          IN  /\ Len(rebuilt) = Len(chain)
              /\ \A i \in 1..Len(chain) :
                    i <= Len(rebuilt) =>
                        /\ rebuilt[i].index = chain[i].index
                        /\ rebuilt[i].timestamp = chain[i].timestamp
                        /\ rebuilt[i].transactions = chain[i].transactions
                        /\ rebuilt[i].previousHash = chain[i].previousHash
                        /\ rebuilt[i].hash = chain[i].hash
                        /\ rebuilt[i].nonce = chain[i].nonce
                        /\ rebuilt[i].signature = chain[i].signature
                        /\ rebuilt[i].validator = chain[i].validator]_vars

\* C36: a createBlockWithRewards call that returns a failure, whatever the
\* reason, leaves the in-memory chain, the stored blocks and every balance
\* as they were before the call.
C36_FailedRewardBlockLeavesNoTrace ==
    [][(result'.op = "createBlockWithRewards" /\ ~result'.success) =>
          /\ chain' = chain
          /\ store' = store
          /\ users' = users
          /\ accounts' = accounts]_vars

\* C37: for every transaction of every block that createBlock appended for
\* identity U, the payload opens with U's private key and U.verifyData
\* accepts the stored signature over the opened payload serialised again; so
\* blocksByAccount(U) succeeds and lists every block U created.
C37_StoredSignaturesVerify ==
    [][result'.op = "blocksByAccount" =>
          \A u \in KeyPairs :
            (HasAccountHash(AccountHash(u)) /\ BlocksByAccount(AccountHash(u))) =>
                LET created == SelectSeq(chain, LAMBDA block :
                                  \E i \in 1..Len(block.transactions) :
                                      block.transactions[i].signature.signer = PublicKeyPem(u))
                IN  /\ \A b \in 1..Len(created) : \A i \in 1..Len(created[b].transactions) :
                          TransactionVerifies(u, created[b].transactions[i])
                    /\ result'.success
                    /\ Len(result'.value) = Len(created)
                    /\ \A b \in 1..Len(created) : result'.value[b].hash = created[b].hash]_vars

(***************************************************************************)
(* The token registry (SmartContractsService).  A token is known by its    *)
(* position in tokens.  The consensus algorithm is the configured one,     *)
(* PoS, under which the createBlock call that mintToken starts without     *)
(* awaiting it appends nothing.                                            *)
(***************************************************************************)
\* the token supplies and mint amounts of the runs
SupplyCaps == {1000}
MintAmounts == {400, 600}

\* SmartContractsService.createToken: getAccount(creator) is not awaited, so
\* the promise is never falsy and any creator is accepted
CreateToken(creator, maxSupply) ==
    /\ Len(tokens) < MaxTokens
    /\ tokens' = Append(tokens, [creator |-> creator, maxSupply |-> maxSupply,
                                 currentSupply |-> 0])
    /\ result' = [Returned("createToken", TRUE, "") EXCEPT !.value = Len(tokens) + 1]
    /\ UNCHANGED <<consensusAlgorithm, chainVars, users, accounts>>
    /\ UNCHANGED <<gasUsage, baseGasPrice, opRuns, adjustments, metering>>

\* token.currentSupply += amount
WithMinted(registry, tokenId, amount) ==
    [registry EXCEPT ![tokenId].currentSupply = @ + amount]

\* SmartContractsService.mintToken(tokenId, amount, recipient); the credit of
\* the recipient goes to the User object getAccount built for this call
MintToken(tokenId, amount, recipient) ==
    /\ IF tokenId \notin 1..Len(tokens)
       THEN /\ result' = Threw("mintToken", "Token no encontrado")
            /\ UNCHANGED tokens
       ELSE IF ~HasAccount(tokens[tokenId].creator)
       THEN /\ result' = Threw("mintToken", "El creador del token no tiene una cuenta valida")
            /\ UNCHANGED tokens
       ELSE IF tokens[tokenId].currentSupply + amount > tokens[tokenId].maxSupply
       THEN /\ result' = Threw("mintToken", "se excede el suministro maximo")
            /\ UNCHANGED tokens
       ELSE /\ tokens' = WithMinted(tokens, tokenId, amount)
            /\ result' = IF ~HasAccount(recipient)
                         THEN Threw("mintToken", "El destinatario no tiene una cuenta valida")
                         ELSE Returned("mintToken", TRUE, "")
    /\ UNCHANGED <<consensusAlgorithm, chainVars, users, accounts>>
    /\ UNCHANGED <<gasUsage, baseGasPrice, opRuns, adjustments, metering>>

TokenIds == 1..(MaxTokens + 1)

InitTokens ==
    /\ Init
    /\ consensusAlgorithm = "PoS"

NextTokens ==
    \/ \E u \in UserIds, ok \in BOOLEAN : CreateAccount(u, ok)
    \/ \E k \in PublicKeys \cup {SystemAddress}, m \in SupplyCaps : CreateToken(k, m)
    \/ \E t \in TokenIds, a \in MintAmounts, k \in PemInputs : MintToken(t, a, k)

SpecTokens == InitTokens /\ [][NextTokens]_vars

\* C38: after every mintToken call with a positive amount each token has
\* currentSupply <= maxSupply; a call that succeeds adds its amount to the
\* currentSupply of its token and to no other, and a call that fails
\* (unknown token, invalid creator, supply exceeded, invalid recipient)
\* leaves every currentSupply and every balance unchanged.
C38_TokenSupplyAccounting ==
    [][result'.op = "mintToken" =>
          \A t \in TokenIds, a \in MintAmounts, k \in PemInputs :
            MintToken(t, a, k) =>
                /\ \A i \in 1..Len(tokens') : tokens'[i].currentSupply <= tokens'[i].maxSupply
                /\ result'.thrown =>
                      (tokens' = tokens /\ users' = users /\ accounts' = accounts)
                /\ ~result'.thrown => tokens' = WithMinted(tokens, t, a)]_vars

====
